---- MODULE Spec2Model ----
(***************************************************************************)
(* Model of the inland CMS backend: the Git provider repository (GitHub    *)
(* adapter), the access-token resolver and the site / article services.    *)
(*                                                                         *)
(* Two specifications share the variables:                                 *)
(*   SpecProvision  the provider-level operations, with the provisioning   *)
(*                  chain (create-from-template, placeholder substitution  *)
(*                  with its retry loop, pages enablement) taken one       *)
(*                  hosting call at a time;                                *)
(*   Spec           the service-level operations over the database and the *)
(*                  hosted repositories, one request at a time.            *)
(***************************************************************************)
EXTENDS Integers, Sequences, FiniteSets, TLC

(***************************************************************************)
(* Bounds of the model                                                     *)
(***************************************************************************)
\* longest tree listing the hosting stub returns
MaxFiles == 2

(***************************************************************************)
(* Program constants                                                       *)
(***************************************************************************)
\* Schedule.recurs(9): retries after the first attempt
MaxRecurs == 9
\* Effect.sleep(1000) before the first listing
InitialDelay == 1000
\* Schedule.exponential(1000)
BackoffBase == 1000

Users == {"u1", "u2"}
RepoNames == {"blog"}
Tokens == {"t1", "t2"}
Slugs == {"a", "b"}
Titles == {"T"}
\* article bodies, as sequences of characters
Bodies == {<<" ", "y">>}

\* value of an absent optional / null
None == "none"

(***************************************************************************)
(* Hosting responses.  A response is the HTTP status of one request and    *)
(* whether its error text contains 'Git Repository is empty'.              *)
(***************************************************************************)
OkResponse == [status |-> 200, emptyMsg |-> FALSE]

ErrorResponses ==
  [status : {401, 404, 409, 422}, emptyMsg : {FALSE}]
    \cup [status : {500}, emptyMsg : BOOLEAN]

Responses == {OkResponse} \cup ErrorResponses

\* response.ok
IsOk(r) == r.status = 200

CallKinds ==
  {"generate", "tree", "getFile", "putFile", "deleteFile", "pages", "user",
   "repoInfo"}

NoCalls == [k \in CallKinds |-> 0]

\* full_name of the repository the hosting provider creates for an owner
FullName(owner, name) == <<owner, name>>

(***************************************************************************)
(* Template files.  A tree entry has a type, an extension and the set of   *)
(* {{...}} tokens occurring in its content.                                *)
(***************************************************************************)
PlaceholderKeys ==
  {"{{SITE_NAME}}", "{{SITE_DESCRIPTION}}", "{{SITE_NAME_SLUG}}",
   "{{SITE_AUTHOR}}", "{{GITHUB_USERNAME}}"}

TextExtensions == {"html", "css", "js", "json", "md", "yml", "yaml", "txt"}

\* the sha a file has in the tree listing, and the one it has when it was
\* changed after the listing
ListedSha == <<"sha", "listed">>
ChangedSha == <<"sha", "changed">>

TreeEntries ==
  [type : {"blob"}, ext : {"html"},
   tokens : {{"{{UNKNOWN}}"}, {"{{SITE_NAME}}"}}, sha : {ListedSha}]
    \cup [type : {"blob"}, ext : {"png"}, tokens : {{"{{SITE_NAME}}"}},
          sha : {ListedSha}]
    \cup [type : {"tree"}, ext : {"html"}, tokens : {{"{{SITE_NAME}}"}},
          sha : {ListedSha}]

RECURSIVE SeqsUpTo(_, _)
SeqsUpTo(S, n) ==
  IF n = 0 THEN {<<>>}
  ELSE LET shorter == SeqsUpTo(S, n - 1)
       IN shorter \cup {Append(s, e) : s \in {t \in shorter : Len(t) = n - 1}, e \in S}

Trees == SeqsUpTo(TreeEntries, MaxFiles)

\* tree.tree.filter((item) => item.type === 'blob')
IsBlob(item) == item.type = "blob"

\* a listed file the loop has not reached: nothing fetched, nothing written
Unprocessed(item) ==
  [type |-> item.type, ext |-> item.ext, tokens |-> item.tokens,
   sha |-> item.sha, fetched |-> <<>>, written |-> <<>>]

\* textExtensions.some((ext) => filePath.endsWith(ext))
shouldProcessFile(file) == file.ext \in TextExtensions

\* hasChanges of processFileWithPlaceholders
hasChanges(file) == file.tokens \cap PlaceholderKeys # {}

\* the predicate letting every failure through
isEmptyRepoAny(error) == error.status >= 409 \/ error.emptyMsg

\* Schedule.whileInput predicate of the tree-listing retry
isEmptyRepo(error) ==
  error.status = 409 \/ error.status = 422 \/ error.emptyMsg

\* the schedule with one recurrence more
ScheduleContinuesOneMore(failed, error) ==
  failed <= MaxRecurs + 1 /\ isEmptyRepo(error)

\* the retry schedule: exponential(1000) intersect recurs(9), whileInput
\* isEmptyRepo; failed is the number of listing attempts that have failed
ScheduleContinues(failed, error) ==
  failed <= MaxRecurs /\ isEmptyRepo(error)

RECURSIVE Pow2(_)
Pow2(n) == IF n = 0 THEN 1 ELSE 2 * Pow2(n - 1)

\* delay before retry number n (n = 1 is the first retry)
BackoffDelay(n) == BackoffBase * Pow2(n - 1)

(***************************************************************************)
(* The hosting provider's REST surface, as the Git Hosting collaborator    *)
(* answers it.  h is the state of the provider: the function from the      *)
(* existing repositories to their content/{slug}.md files.  r is the       *)
(* answer the provider gives whatever that state (OkResponse: the state    *)
(* decides).                                                               *)
(***************************************************************************)
NoFiles == [s \in {} |-> None]

\* the blob sha of a file is a function of its content
Sha(file) == <<"sha", file>>

NoSha == <<>>

NotFound == [status |-> 404, emptyMsg |-> FALSE]
Conflict == [status |-> 409, emptyMsg |-> FALSE]

HasFile(h, repo, slug) ==
  repo \in DOMAIN h /\ slug \in DOMAIN h[repo]

ShaAt(h, repo, slug) ==
  IF HasFile(h, repo, slug) THEN Sha(h[repo][slug]) ELSE NoSha

\* GET /repos/{repo}/contents/content/{slug}.md
ServeGet(h, repo, slug, r) ==
  IF ~IsOk(r) THEN [resp |-> r, sha |-> NoSha]
  ELSE IF ~HasFile(h, repo, slug) THEN [resp |-> NotFound, sha |-> NoSha]
  ELSE [resp |-> OkResponse, sha |-> Sha(h[repo][slug])]

\* PUT and DELETE on a path: the sha sent must be the sha of the file that
\* is there (NoSha when there is none)
ServeWrite(h, repo, slug, sha, r) ==
  IF ~IsOk(r) THEN r
  ELSE IF repo \notin DOMAIN h THEN NotFound
  ELSE IF sha = ShaAt(h, repo, slug) THEN OkResponse
  ELSE Conflict

\* GET /repos/{repo}/git/trees/{branch}?recursive=1, the content/*.md blobs
ServeTree(h, repo, r) ==
  IF ~IsOk(r) THEN [resp |-> r, slugs |-> {}]
  ELSE IF repo \notin DOMAIN h THEN [resp |-> NotFound, slugs |-> {}]
  ELSE [resp |-> OkResponse, slugs |-> DOMAIN h[repo]]

PutFile(h, repo, slug, file) ==
  [h EXCEPT ![repo] =
     [s \in DOMAIN h[repo] \cup {slug} |-> IF s = slug THEN file ELSE h[repo][s]]]

RemoveFile(h, repo, slug) ==
  [h EXCEPT ![repo] = [s \in DOMAIN h[repo] \ {slug} |-> h[repo][s]]]

(***************************************************************************)
(* Git provider repository (GitHub adapter)                                *)
(***************************************************************************)
Call(kind, resp) == [kind |-> kind, status |-> resp.status]

\* `content/${articleSlug}.md`
FilePath(slug) == <<"content", slug, "md">>

\* getFileContent(...).pipe(catchAll: 404 => null)
\* the probe that takes every failure for a missing file
getFileOrNullLenient(h, repo, slug, r) ==
  LET got == ServeGet(h, repo, slug, r)
  IN IF IsOk(got.resp)
       THEN [ok |-> TRUE, isNull |-> FALSE, sha |-> got.sha, resp |-> got.resp]
     ELSE [ok |-> TRUE, isNull |-> TRUE, sha |-> NoSha, resp |-> got.resp]

getFileOrNull(h, repo, slug, r) ==
  LET got == ServeGet(h, repo, slug, r)
  IN IF IsOk(got.resp)
       THEN [ok |-> TRUE, isNull |-> FALSE, sha |-> got.sha, resp |-> got.resp]
     ELSE IF got.resp.status = 404
       THEN [ok |-> TRUE, isNull |-> TRUE, sha |-> NoSha, resp |-> got.resp]
     ELSE [ok |-> FALSE, isNull |-> TRUE, sha |-> NoSha, resp |-> got.resp]

\* the publication that reports every write as a new file
publishArticleToRepoAlwaysNew(h, repo, slug, markdownContent, rGet, rPut) ==
  LET existingFile == getFileOrNull(h, repo, slug, rGet)
      sha == IF existingFile.isNull THEN NoSha ELSE existingFile.sha
      put == ServeWrite(h, repo, slug, sha, rPut)
      probe == <<Call("getFile", existingFile.resp)>>
  IN IF ~existingFile.ok
       THEN [status |-> "failed", error |-> existingFile.resp,
             trace |-> probe, hosted |-> h]
     ELSE IF ~IsOk(put)
       THEN [status |-> "failed", error |-> put,
             trace |-> Append(probe, Call("putFile", put)), hosted |-> h]
     ELSE [status |-> "ok", published |-> TRUE, filePath |-> FilePath(slug),
           wasUpdate |-> FALSE, sha |-> sha,
           message |-> <<"Add", slug>>,
           trace |-> Append(probe, Call("putFile", put)),
           hosted |-> PutFile(h, repo, slug, markdownContent)]

publishArticleToRepo(h, repo, slug, markdownContent, rGet, rPut) ==
  LET existingFile == getFileOrNull(h, repo, slug, rGet)
      sha == IF existingFile.isNull THEN NoSha ELSE existingFile.sha
      put == ServeWrite(h, repo, slug, sha, rPut)
      probe == <<Call("getFile", existingFile.resp)>>
  IN IF ~existingFile.ok
       THEN [status |-> "failed", error |-> existingFile.resp,
             trace |-> probe, hosted |-> h]
     ELSE IF ~IsOk(put)
       THEN [status |-> "failed", error |-> put, sha |-> sha,
             message |-> <<IF sha # NoSha THEN "Update" ELSE "Add", slug>>,
             trace |-> Append(probe, Call("putFile", put)), hosted |-> h]
     ELSE [status |-> "ok", published |-> TRUE, filePath |-> FilePath(slug),
           wasUpdate |-> sha # NoSha, sha |-> sha,
           message |-> <<IF sha # NoSha THEN "Update" ELSE "Add", slug>>,
           trace |-> Append(probe, Call("putFile", put)),
           hosted |-> PutFile(h, repo, slug, markdownContent)]

\* the removal that reports the file deleted and leaves it in place
deleteArticleFromRepoKeepsFile(h, repo, slug, rGet, rDel) ==
  LET currentFile == getFileOrNull(h, repo, slug, rGet)
      del == ServeWrite(h, repo, slug, currentFile.sha, rDel)
      probe == <<Call("getFile", currentFile.resp)>>
  IN IF ~currentFile.ok
       THEN [status |-> "failed", error |-> currentFile.resp,
             trace |-> probe, hosted |-> h]
     ELSE IF currentFile.isNull
       THEN [status |-> "ok", deleted |-> FALSE, reason |-> "File not found",
             filePath |-> None, trace |-> probe, hosted |-> h]
     ELSE IF ~IsOk(del)
       THEN [status |-> "failed", error |-> del,
             trace |-> Append(probe, Call("deleteFile", del)), hosted |-> h]
     ELSE [status |-> "ok", deleted |-> TRUE, reason |-> None,
           filePath |-> FilePath(slug),
           trace |-> Append(probe, Call("deleteFile", del)),
           hosted |-> h]

\* the deletion that takes a refused DELETE for a missing file
deleteArticleFromRepoForgiving(h, repo, slug, rGet, rDel) ==
  LET currentFile == getFileOrNull(h, repo, slug, rGet)
      del == ServeWrite(h, repo, slug, currentFile.sha, rDel)
      probe == <<Call("getFile", currentFile.resp)>>
  IN IF ~currentFile.ok
       THEN [status |-> "failed", error |-> currentFile.resp,
             trace |-> probe, hosted |-> h]
     ELSE IF currentFile.isNull
       THEN [status |-> "ok", deleted |-> FALSE, reason |-> "File not found",
             filePath |-> None, trace |-> probe, hosted |-> h]
     ELSE IF ~IsOk(del)
       THEN [status |-> "ok", deleted |-> FALSE, reason |-> "File not found",
             filePath |-> None, sha |-> currentFile.sha,
             trace |-> Append(probe, Call("deleteFile", del)), hosted |-> h]
     ELSE [status |-> "ok", deleted |-> TRUE, reason |-> None,
           filePath |-> FilePath(slug), sha |-> currentFile.sha,
           trace |-> Append(probe, Call("deleteFile", del)),
           hosted |-> RemoveFile(h, repo, slug)]

deleteArticleFromRepo(h, repo, slug, rGet, rDel) ==
  LET currentFile == getFileOrNull(h, repo, slug, rGet)
      del == ServeWrite(h, repo, slug, currentFile.sha, rDel)
      probe == <<Call("getFile", currentFile.resp)>>
  IN IF ~currentFile.ok
       THEN [status |-> "failed", error |-> currentFile.resp,
             trace |-> probe, hosted |-> h]
     ELSE IF currentFile.isNull
       THEN [status |-> "ok", deleted |-> FALSE, reason |-> "File not found",
             filePath |-> None, trace |-> probe, hosted |-> h]
     ELSE IF ~IsOk(del)
       THEN [status |-> "failed", error |-> del, sha |-> currentFile.sha,
             trace |-> Append(probe, Call("deleteFile", del)), hosted |-> h]
     ELSE [status |-> "ok", deleted |-> TRUE, reason |-> None,
           filePath |-> FilePath(slug), sha |-> currentFile.sha,
           trace |-> Append(probe, Call("deleteFile", del)),
           hosted |-> RemoveFile(h, repo, slug)]

\* GET /user under catchAll
validateGitHubToken(r) ==
  [isValid |-> IsOk(r),
   reason |-> IF IsOk(r) THEN None ELSE "GitHub token validation failed",
   trace |-> <<Call("user", r)>>]

\* the characters of the class \s: the space and the line break
Whitespace == {" ", "nl"}

\* String.prototype.trim over the model's characters
RECURSIVE TrimLeft(_)
TrimLeft(s) ==
  IF s # <<>> /\ Head(s) \in Whitespace THEN TrimLeft(Tail(s)) ELSE s

RECURSIVE TrimRight(_)
TrimRight(s) ==
  IF s # <<>> /\ s[Len(s)] \in Whitespace
    THEN TrimRight(SubSeq(s, 1, Len(s) - 1))
  ELSE s

Trim(s) == TrimRight(TrimLeft(s))

\* slug.replace(/-/g, ' ').replace(/\b\w/g, upper)
TitleFromSlug(slug) == <<"Title", slug>>

\* the ImportedArticle read from content/{fileSlug}.md
parseMarkdownContent(file, fileSlug) ==
  [title |-> IF file.title # None THEN file.title ELSE TitleFromSlug(fileSlug),
   slug |-> IF file.slug # None THEN file.slug ELSE fileSlug,
   content |-> Trim(file.content),
   status |-> IF file.status = "draft" THEN "draft" ELSE "published"]

\* the slugs of a set in tree order
RECURSIVE SortedSlugs(_)
SortedSlugs(S) ==
  IF S = {} THEN <<>>
  ELSE LET first == CHOOSE s \in S :
                      \A t \in S : s = t \/ (s = "a" /\ t = "b")
       IN <<first>> \o SortedSlugs(S \ {first})

\* the loop of getMarkdownFilesFromRepo: one fetch per markdown file, rFiles[i]
\* answering the fetch of the i-th file.  A failed fetch fails the operation:
\* try/catch does not intercept a failed Effect.
RECURSIVE FetchAll(_, _, _, _, _)
FetchAll(h, repo, slugSeq, rFiles, i) ==
  IF i > Len(slugSeq)
    THEN [ok |-> TRUE, articles |-> <<>>, trace |-> <<>>, error |-> OkResponse]
  ELSE LET got == ServeGet(h, repo, slugSeq[i], rFiles[i])
           call == <<Call("getFile", got.resp)>>
       IN IF ~IsOk(got.resp)
            THEN [ok |-> FALSE, articles |-> <<>>, trace |-> call,
                  error |-> got.resp]
          ELSE LET more == FetchAll(h, repo, slugSeq, rFiles, i + 1)
               IN [ok |-> more.ok,
                   articles |->
                     IF more.ok
                       THEN <<parseMarkdownContent(h[repo][slugSeq[i]],
                                                   slugSeq[i])>>
                              \o more.articles
                       ELSE <<>>,
                   trace |-> call \o more.trace,
                   error |-> more.error]

getMarkdownFilesFromRepo(h, repo, rTree, rFiles) ==
  LET listing == ServeTree(h, repo, rTree)
      call == <<Call("tree", listing.resp)>>
      fetched == FetchAll(h, repo, SortedSlugs(listing.slugs), rFiles, 1)
  IN IF ~IsOk(listing.resp)
       THEN [status |-> "failed", error |-> listing.resp, trace |-> call,
             articles |-> <<>>]
     ELSE IF ~fetched.ok
       THEN [status |-> "failed", error |-> fetched.error,
             trace |-> call \o fetched.trace, articles |-> <<>>]
     ELSE [status |-> "ok", error |-> OkResponse,
           trace |-> call \o fetched.trace, articles |-> fetched.articles]

\* GET /repos/{repo}
getRepositoryInfo(h, repo, r) ==
  LET resp == IF ~IsOk(r) THEN r
              ELSE IF repo \notin DOMAIN h THEN NotFound ELSE OkResponse
  IN [status |-> IF IsOk(resp) THEN "ok" ELSE "failed", error |-> resp,
      trace |-> <<Call("repoInfo", resp)>>]

\* POST /repos/{template}/generate: a name the owner already uses is refused
Unprocessable == [status |-> 422, emptyMsg |-> FALSE]

ServeGenerate(h, repo, r) ==
  IF ~IsOk(r) THEN r
  ELSE IF repo \in DOMAIN h THEN Unprocessable
  ELSE OkResponse

\* the content/*.md files a repository generated from the template starts with
TemplateContents ==
  {NoFiles,
   [s \in Slugs |-> [title |-> None, slug |-> IF s = "a" THEN "b" ELSE None,
                     status |-> IF s = "a" THEN "draft" ELSE None,
                     content |-> <<" ", "y">>]]}

Generate(h, repo, content) ==
  [x \in DOMAIN h \cup {repo} |-> IF x = repo THEN content ELSE h[x]]

(***************************************************************************)
(* The database.  db is a record of the three tables: gitIntegrations a    *)
(* set of rows, sites and articles functions from the ids in use to rows.  *)
(***************************************************************************)
\* rows each table can hold
MaxSites == 2
MaxArticles == 2

SiteIds == 1 .. MaxSites
ArticleIds == 1 .. MaxArticles

\* sites.git_repo of a site with no linked repository (TEXT NOT NULL, '')
NoRepo == <<>>

NoErr == [kind |-> None, message |-> None]
NoInfo == [none |-> TRUE]

Failed(error, trace, db, h) ==
  [status |-> "failed", error |-> error, info |-> NoInfo, trace |-> trace,
   db |-> db, hosted |-> h, resolution |-> None, full |-> FALSE]

Done(info, trace, db, h) ==
  [status |-> "ok", error |-> NoErr, info |-> info, trace |-> trace,
   db |-> db, hosted |-> h, resolution |-> None, full |-> FALSE]

\* full: the request needs more rows than the model's tables hold
\* resolution: how the request's access-token resolution ended, if it ran

\* a rejected Prisma promise under Effect.promise: a defect, which no
\* try/catch of the generator and no typed error channel sees
Defect(what) == [kind |-> "Defect", message |-> what]

FreeIds(rows, ids) == ids \ DOMAIN rows

NewId(rows, ids) ==
  CHOOSE i \in FreeIds(rows, ids) : \A j \in FreeIds(rows, ids) : i <= j

Insert(rows, id, row) ==
  [i \in DOMAIN rows \cup {id} |-> IF i = id THEN row ELSE rows[i]]

Remove(rows, ids) == [i \in DOMAIN rows \ ids |-> rows[i]]

\* userRepo.upsertGitIntegration: upsert on (userId, platform)
\* the login that always creates a row
upsertGitIntegrationInsert(db, data) ==
  [db EXCEPT !.gitIntegrations = @ \cup {data}]

upsertGitIntegration(db, data) ==
  LET existing == {g \in db.gitIntegrations :
                     g.userId = data.userId /\ g.platform = data.platform}
  IN [db EXCEPT !.gitIntegrations =
        IF existing = {} THEN @ \cup {data}
        ELSE (@ \ existing)
               \cup {[g EXCEPT !.accessToken = data.accessToken] : g \in existing}]

\* the lookup with ?? in place of ||: the empty string counts as a token
getGitHubTokenNullish(db, userId) ==
  LET rows == {g \in db.gitIntegrations :
                 g.userId = userId /\ g.platform = "github"}
  IN IF rows = {} THEN None
     ELSE (CHOOSE x \in rows : TRUE).accessToken

\* userRepo.getGitHubToken: gitIntegration?.accessToken || null
getGitHubToken(db, userId) ==
  LET rows == {g \in db.gitIntegrations :
                 g.userId = userId /\ g.platform = "github"}
  IN IF rows = {} THEN None
     ELSE LET g == CHOOSE x \in rows : TRUE
          IN IF g.accessToken = "" THEN None ELSE g.accessToken

\* the clearing left out
clearGitHubTokenSkipped(db, userId) == db

\* userRepo.clearGitHubToken: updateMany accessToken ''
clearGitHubToken(db, userId) ==
  [db EXCEPT !.gitIntegrations =
     {IF g.userId = userId /\ g.platform = "github"
        THEN [g EXCEPT !.accessToken = ""] ELSE g : g \in @}]

GitHubTokenError(message) == [kind |-> "GitHubTokenError", message |-> message]

\* AuthService.getUserGitHubToken; r answers the validation call
getUserGitHubToken(db, userId, r) ==
  LET accessToken == getGitHubToken(db, userId)
      validation == validateGitHubToken(r)
  IN IF accessToken = None
       THEN [ok |-> FALSE, token |-> None, trace |-> <<>>, db |-> db,
             error |-> GitHubTokenError("No GitHub integration found for user")]
     ELSE IF ~validation.isValid
       THEN [ok |-> FALSE, token |-> None, trace |-> validation.trace,
             db |-> clearGitHubToken(db, userId),
             error |-> GitHubTokenError(validation.reason)]
     ELSE [ok |-> TRUE, token |-> accessToken, trace |-> validation.trace,
           db |-> db, error |-> NoErr]

\* articleRepo.findBySiteIdAndSlug
findBySiteIdAndSlug(db, siteId, slug) ==
  {id \in DOMAIN db.articles :
     db.articles[id].siteId = siteId /\ db.articles[id].slug = slug}

\* articleRepo.findBySiteId
findBySiteId(db, siteId) ==
  {id \in DOMAIN db.articles : db.articles[id].siteId = siteId}

\* the insert into a table that lacks the unique index
ArticleCreateUnindexed(db, data) ==
  LET id == NewId(db.articles, ArticleIds)
  IN [ok |-> TRUE, id |-> id,
      db |-> [db EXCEPT !.articles = Insert(@, id, data)]]

\* articleRepo.create under articles_site_id_slug_key
ArticleCreate(db, data) ==
  IF findBySiteIdAndSlug(db, data.siteId, data.slug) # {}
    THEN [ok |-> FALSE, id |-> 0, db |-> db]
  ELSE LET id == NewId(db.articles, ArticleIds)
       IN [ok |-> TRUE, id |-> id,
           db |-> [db EXCEPT !.articles = Insert(@, id, data)]]

\* the update that writes the whole row from data
ArticleUpdateWhole(db, id, data) ==
  LET old == db.articles[id]
      new == [k \in DOMAIN old |->
                IF k \in DOMAIN data THEN data[k]
                ELSE IF k = "siteId" THEN old[k] ELSE None]
  IN [ok |-> TRUE, db |-> [db EXCEPT !.articles[id] = new]]

\* articleRepo.update: the keys present in data replace the row's
ArticleUpdate(db, id, data) ==
  LET old == db.articles[id]
      new == [k \in DOMAIN old |-> IF k \in DOMAIN data THEN data[k] ELSE old[k]]
  IN IF findBySiteIdAndSlug(db, new.siteId, new.slug) \ {id} # {}
       THEN [ok |-> FALSE, db |-> db]
     ELSE [ok |-> TRUE, db |-> [db EXCEPT !.articles[id] = new]]

\* articleRepo.delete
ArticleDelete(db, id) == [db EXCEPT !.articles = Remove(@, {id})]

\* siteRepo.create under sites_user_id_name_key
SiteCreate(db, data) ==
  IF \E i \in DOMAIN db.sites :
       db.sites[i].userId = data.userId /\ db.sites[i].name = data.name
    THEN [ok |-> FALSE, id |-> 0, db |-> db]
  ELSE LET id == NewId(db.sites, SiteIds)
       IN [ok |-> TRUE, id |-> id,
           db |-> [db EXCEPT !.sites = Insert(@, id, data)]]

\* siteRepo.update: ...(data.name && { name: data.name }), likewise gitRepo
SiteUpdate(db, id, data) ==
  LET old == db.sites[id]
      new == [k \in DOMAIN old |->
                IF k \in DOMAIN data /\ k # "userId" THEN data[k] ELSE old[k]]
  IN IF \E i \in DOMAIN db.sites \ {id} :
          db.sites[i].userId = new.userId /\ db.sites[i].name = new.name
       THEN [ok |-> FALSE, db |-> db]
     ELSE [ok |-> TRUE, db |-> [db EXCEPT !.sites[id] = new]]

\* the deletion under a foreign key that does not cascade and is not checked
SiteDeleteAlone(db, id) == [db EXCEPT !.sites = Remove(@, {id})]

\* siteRepo.delete; articles_site_id_fkey is ON DELETE CASCADE
SiteDelete(db, id) ==
  [db EXCEPT !.sites = Remove(@, {id}),
             !.articles = Remove(@, findBySiteId(db, id))]

(***************************************************************************)
(* Local validation of the route inputs.  A text is a sequence of          *)
(* characters; one character stands for each class the patterns tell       *)
(* apart.                                                                  *)
(***************************************************************************)
\* longest text enumerated character by character
MaxText == 3

\* trimmedName.length > 100, trimmedTitle.length > 200, trimmedSlug.length > 100
MaxNameLength == 100
MaxTitleLength == 200
MaxSlugLength == 100

\* [a-zA-Z0-9\-_.] and [a-z0-9-]
NameChars == {"a", "A", "1", "-", "_", "."}
SlugChars == {"a", "1", "-"}

Chars == NameChars \cup {" ", "/", "!"}

Rep(c, n) == [i \in 1 .. n |-> c]

\* /^[class]+$/.test(s)
Matches(s, class) == s # <<>> /\ \A i \in 1 .. Len(s) : s[i] \in class

Valid(value) == [ok |-> TRUE, value |-> value, error |-> NoErr]

SiteValidationError(field, message) ==
  [ok |-> FALSE, value |-> <<>>,
   error |-> [kind |-> "SiteValidationError", message |-> message]]

ArticleValidationError(field, message) ==
  [ok |-> FALSE, value |-> <<>>,
   error |-> [kind |-> "ArticleValidationError", message |-> message]]

\* the validation that refuses a name of exactly 100 characters
validateSiteNameShort(name) ==
  LET trimmedName == Trim(name)
  IN IF Len(trimmedName) = 0
       THEN SiteValidationError("name", "Site name cannot be empty")
     ELSE IF Len(trimmedName) >= MaxNameLength
       THEN SiteValidationError("name",
                                "Site name cannot exceed 100 characters")
     ELSE IF ~Matches(trimmedName, NameChars)
       THEN SiteValidationError("name", "Site name can only contain ...")
     ELSE Valid(trimmedName)

validateSiteName(name) ==
  LET trimmedName == Trim(name)
  IN IF Len(trimmedName) = 0
       THEN SiteValidationError("name", "Site name cannot be empty")
     ELSE IF Len(trimmedName) > MaxNameLength
       THEN SiteValidationError("name",
                                "Site name cannot exceed 100 characters")
     ELSE IF ~Matches(trimmedName, NameChars)
       THEN SiteValidationError("name", "Site name can only contain ...")
     ELSE Valid(trimmedName)

\* /^[a-zA-Z0-9\-_.]+\/[a-zA-Z0-9\-_.]+$/
validateGitRepo(gitRepo) ==
  LET trimmedRepo == Trim(gitRepo)
  IN IF Len(trimmedRepo) = 0
       THEN SiteValidationError("gitRepo", "Git repository cannot be empty")
     ELSE IF ~\E k \in 1 .. Len(trimmedRepo) :
                /\ trimmedRepo[k] = "/"
                /\ Matches(SubSeq(trimmedRepo, 1, k - 1), NameChars)
                /\ Matches(SubSeq(trimmedRepo, k + 1, Len(trimmedRepo)),
                           NameChars)
       THEN SiteValidationError("gitRepo",
              "Git repository must be in format: username/repository-name")
     ELSE Valid(trimmedRepo)

validateTitle(title) ==
  LET trimmedTitle == Trim(title)
  IN IF Len(trimmedTitle) = 0
       THEN ArticleValidationError("title", "Article title cannot be empty")
     ELSE IF Len(trimmedTitle) > MaxTitleLength
       THEN ArticleValidationError("title",
              "Article title cannot exceed 200 characters")
     ELSE Valid(trimmedTitle)

validateSlug(slug) ==
  LET trimmedSlug == Trim(slug)
  IN IF Len(trimmedSlug) = 0
       THEN ArticleValidationError("slug", "Article slug cannot be empty")
     ELSE IF ~Matches(trimmedSlug, SlugChars)
       THEN ArticleValidationError("slug", "Article slug can only contain ...")
     ELSE IF Len(trimmedSlug) > MaxSlugLength
       THEN ArticleValidationError("slug",
              "Article slug cannot exceed 100 characters")
     ELSE Valid(trimmedSlug)

\* String.prototype.toLowerCase
toLowerCase(s) == [i \in 1 .. Len(s) |-> IF s[i] = "A" THEN "a" ELSE s[i]]

\* s.replace(/c+/g, by): every maximal run of c becomes one by
ReplaceRuns(s, c, by) ==
  LET marked == [i \in 1 .. Len(s) |->
                   [char |-> s[i], first |-> i = 1 \/ s[i - 1] # c]]
      kept == SelectSeq(marked, LAMBDA x : x.char # c \/ x.first)
  IN [i \in 1 .. Len(kept) |-> IF kept[i].char = c THEN by ELSE kept[i].char]

\* s.replace(/^-|-$/g, '')
StripHyphens(s) ==
  LET a == IF s # <<>> /\ Head(s) = "-" THEN Tail(s) ELSE s
  IN IF a # <<>> /\ a[Len(a)] = "-" THEN SubSeq(a, 1, Len(a) - 1) ELSE a

generateSlugFromTitle(title) ==
  LET trimmedTitle == Trim(title)
      kept == SelectSeq(toLowerCase(trimmedTitle),
                        LAMBDA c : c \in SlugChars \cup {" "})
      stripped == StripHyphens(ReplaceRuns(ReplaceRuns(kept, " ", "-"),
                                           "-", "-"))
      slug == SubSeq(stripped, 1, IF Len(stripped) < MaxSlugLength
                                    THEN Len(stripped) ELSE MaxSlugLength)
  IN IF Len(trimmedTitle) = 0
       THEN ArticleValidationError("title",
              "Cannot generate slug from empty title")
     ELSE IF Len(slug) = 0
       THEN ArticleValidationError("title",
              "Title contains no valid slug characters")
     ELSE Valid(slug)

(***************************************************************************)
(* Site and article services                                               *)
(***************************************************************************)
SiteNotFoundError == [kind |-> "SiteNotFoundError", message |-> None]
SiteAccessDeniedError == [kind |-> "SiteAccessDeniedError", message |-> None]
SiteAccessError == [kind |-> "SiteAccessError", message |-> None]
ArticleNotFoundError == [kind |-> "ArticleNotFoundError", message |-> None]
ArticleAccessDeniedError ==
  [kind |-> "ArticleAccessDeniedError", message |-> None]

\* GET /sites/:id: findSiteById, then the route's owner comparison
findSiteById(db, h, siteId, userId) ==
  IF siteId \notin DOMAIN db.sites
    THEN Failed(SiteNotFoundError, <<>>, db, h)
  ELSE IF db.sites[siteId].userId # userId
    THEN Failed(SiteAccessDeniedError, <<>>, db, h)
  ELSE Done([site |-> db.sites[siteId]], <<>>, db, h)

updateSite(db, h, siteId, userId, data) ==
  IF siteId \notin DOMAIN db.sites
    THEN Failed(SiteNotFoundError, <<>>, db, h)
  ELSE IF db.sites[siteId].userId # userId
    THEN Failed(SiteAccessDeniedError, <<>>, db, h)
  ELSE LET updated == SiteUpdate(db, siteId, data)
       IN IF ~updated.ok
            THEN Failed(Defect("Unique constraint"), <<>>, db, h)
          ELSE Done([site |-> updated.db.sites[siteId]], <<>>, updated.db, h)

\* the deletion without the owner comparison
deleteSiteUnchecked(db, h, siteId, userId) ==
  IF siteId \notin DOMAIN db.sites
    THEN Failed(SiteNotFoundError, <<>>, db, h)
  ELSE Done([site |-> db.sites[siteId]], <<>>, SiteDelete(db, siteId), h)

\* the deletion that also removes the hosted repository of the site
deleteSiteAndRepo(db, h, siteId, userId) ==
  IF siteId \notin DOMAIN db.sites
    THEN Failed(SiteNotFoundError, <<>>, db, h)
  ELSE IF db.sites[siteId].userId # userId
    THEN Failed(SiteAccessDeniedError, <<>>, db, h)
  ELSE Done([site |-> db.sites[siteId]], <<>>, SiteDelete(db, siteId),
            Remove(h, {db.sites[siteId].gitRepo}))

deleteSite(db, h, siteId, userId) ==
  IF siteId \notin DOMAIN db.sites
    THEN Failed(SiteNotFoundError, <<>>, db, h)
  ELSE IF db.sites[siteId].userId # userId
    THEN Failed(SiteAccessDeniedError, <<>>, db, h)
  ELSE Done([site |-> db.sites[siteId]], <<>>, SiteDelete(db, siteId), h)

createArticle(db, h, userId, data) ==
  IF data.siteId \notin DOMAIN db.sites
    THEN Failed(SiteAccessError, <<>>, db, h)
  ELSE IF db.sites[data.siteId].userId # userId
    THEN Failed(SiteAccessError, <<>>, db, h)
  ELSE LET created == ArticleCreate(db, data)
       IN IF ~created.ok
            THEN Failed(Defect("Unique constraint"), <<>>, db, h)
          ELSE Done([article |-> created.id], <<>>, created.db, h)

\* GET /articles/:id: findArticleById, then the route's owner comparison
findArticleById(db, h, articleId, userId) ==
  IF articleId \notin DOMAIN db.articles
    THEN Failed(ArticleNotFoundError, <<>>, db, h)
  ELSE IF db.sites[db.articles[articleId].siteId].userId # userId
    THEN Failed(ArticleAccessDeniedError, <<>>, db, h)
  ELSE Done([article |-> db.articles[articleId]], <<>>, db, h)

findSiteArticles(db, h, siteId, userId) ==
  IF siteId \notin DOMAIN db.sites
    THEN Failed(SiteAccessError, <<>>, db, h)
  ELSE IF db.sites[siteId].userId # userId
    THEN Failed(SiteAccessError, <<>>, db, h)
  ELSE Done([articles |-> findBySiteId(db, siteId)], <<>>, db, h)

\* the update that moves the hosted file along with the slug
updateArticleMovesFile(db, h, articleId, userId, data) ==
  IF articleId \notin DOMAIN db.articles
    THEN Failed(ArticleNotFoundError, <<>>, db, h)
  ELSE IF db.sites[db.articles[articleId].siteId].userId # userId
    THEN Failed(ArticleAccessDeniedError, <<>>, db, h)
  ELSE LET updated == ArticleUpdate(db, articleId, data)
           old == db.articles[articleId]
           repo == db.sites[old.siteId].gitRepo
           new == updated.db.articles[articleId]
       IN IF ~updated.ok
            THEN Failed(Defect("Unique constraint"), <<>>, db, h)
          ELSE Done([article |-> new], <<>>, updated.db,
                    IF HasFile(h, repo, old.slug) /\ new.slug # old.slug
                      THEN RemoveFile(PutFile(h, repo, new.slug,
                                              h[repo][old.slug]),
                                      repo, old.slug)
                    ELSE h)

updateArticle(db, h, articleId, userId, data) ==
  IF articleId \notin DOMAIN db.articles
    THEN Failed(ArticleNotFoundError, <<>>, db, h)
  ELSE IF db.sites[db.articles[articleId].siteId].userId # userId
    THEN Failed(ArticleAccessDeniedError, <<>>, db, h)
  ELSE LET updated == ArticleUpdate(db, articleId, data)
       IN IF ~updated.ok
            THEN Failed(Defect("Unique constraint"), <<>>, db, h)
          ELSE Done([article |-> updated.db.articles[articleId]], <<>>,
                    updated.db, h)

deleteArticle(db, h, articleId, userId) ==
  IF articleId \notin DOMAIN db.articles
    THEN Failed(ArticleNotFoundError, <<>>, db, h)
  ELSE IF db.sites[db.articles[articleId].siteId].userId # userId
    THEN Failed(ArticleAccessDeniedError, <<>>, db, h)
  ELSE Done([article |-> db.articles[articleId], gitHubDeleted |-> FALSE],
            <<>>, ArticleDelete(db, articleId), h)

(***************************************************************************)
(* Services that reach the hosting provider.  rs is the sequence of the    *)
(* provider's answers to the hosting calls of the request, in the order    *)
(* the handler issues them.                                                *)
(***************************************************************************)
NoLinkedRepoError ==
  [kind |-> "Failure",
   message |-> "Site does not have a linked GitHub repository"]

GitProviderError(resp) == [kind |-> "GitProviderError", message |-> resp.status]

\* the handler resolved the access token of the user with outcome tok
WithToken(res, tok) ==
  [res EXCEPT !.resolution =
     IF tok.ok THEN "valid"
     ELSE IF tok.trace = <<>> THEN "absent" ELSE "invalid"]

\* front matter (title, date, excerpt) followed by the article's content
(***************************************************************************)
(* The text of a published file.  Bodies are plain text: letters, colons,  *)
(* spaces and line breaks, so that the markdown patterns of                *)
(* generateExcerpt other than the colon and the whitespace ones find       *)
(* nothing to remove.                                                      *)
(***************************************************************************)
\* text.length <= 150, truncated.substring(0, 150)
ExcerptLength == 150
\* lastSpaceIndex > 100
WordBoundary == 100

Ellipsis == <<".", ".", ".">>

\* content.replace(':', ''): the first colon only
RemoveFirst(s, c) ==
  IF \E i \in 1 .. Len(s) : s[i] = c
    THEN LET i == CHOOSE i \in 1 .. Len(s) :
                    s[i] = c /\ \A j \in 1 .. i - 1 : s[j] # c
         IN SubSeq(s, 1, i - 1) \o SubSeq(s, i + 1, Len(s))
  ELSE s

\* the excerpt that is cut at 150 characters and gets no ellipsis
generateExcerptBounded(content) ==
  LET uncolon == RemoveFirst(content, ":")
      spaced == [i \in 1 .. Len(uncolon) |->
                   IF uncolon[i] \in Whitespace THEN " " ELSE uncolon[i]]
      text == Trim(ReplaceRuns(spaced, " ", " "))
  IN IF Len(text) <= ExcerptLength THEN text
     ELSE SubSeq(text, 1, ExcerptLength)

generateExcerpt(content) ==
  LET uncolon == RemoveFirst(content, ":")
      spaced == [i \in 1 .. Len(uncolon) |->
                   IF uncolon[i] \in Whitespace THEN " " ELSE uncolon[i]]
      text == Trim(ReplaceRuns(spaced, " ", " "))
      truncated == SubSeq(text, 1, ExcerptLength)
      spaces == {i \in 0 .. ExcerptLength - 1 : truncated[i + 1] = " "}
      lastSpaceIndex == IF spaces = {} THEN -1
                        ELSE CHOOSE i \in spaces : \A j \in spaces : j <= i
  IN IF Len(text) <= ExcerptLength THEN text
     ELSE IF lastSpaceIndex > WordBoundary
       THEN SubSeq(truncated, 1, lastSpaceIndex) \o Ellipsis
     ELSE truncated \o Ellipsis

\* new Date().toISOString().split('T')[0]
Today == <<"2", "0", "2", "5", "-", "0", "8", "-", "2", "1">>

Dashes == <<"-", "-", "-">>

\* frontMatter + article.content
markdownContent(article) ==
  Dashes \o <<"nl">>
    \o <<"t", "i", "t", "l", "e", ":", " ">> \o article.title \o <<"nl">>
    \o <<"d", "a", "t", "e", ":", " ">> \o Today \o <<"nl">>
    \o <<"e", "x", "c", "e", "r", "p", "t", ":", " ">>
    \o generateExcerpt(article.content) \o <<"nl">>
    \o Dashes \o <<"nl", "nl">>
    \o article.content

\* s.split('\n')
RECURSIVE Split(_)
Split(s) ==
  IF \A i \in 1 .. Len(s) : s[i] # "nl" THEN <<s>>
  ELSE LET i == CHOOSE i \in 1 .. Len(s) :
                  s[i] = "nl" /\ \A j \in 1 .. i - 1 : s[j] # "nl"
       IN <<SubSeq(s, 1, i - 1)>> \o Split(SubSeq(s, i + 1, Len(s)))

\* the positions where \s*\n, started at position from, can end
LineEnds(s, from) ==
  {m \in from .. Len(s) :
     s[m] = "nl" /\ \A i \in from .. m - 1 : s[i] \in Whitespace}

\* content.match(/^---\s*\n([\s\S]*?)\n---\s*\n([\s\S]*)$/): \s* takes the
\* longest run that lets the rest match, the first group the shortest text
frontMatterMatch(content) ==
  LET Closes(e) == /\ e + 4 <= Len(content)
                   /\ content[e + 1] = "nl"
                   /\ SubSeq(content, e + 2, e + 4) = Dashes
                   /\ LineEnds(content, e + 5) # {}
      opens == IF Len(content) >= 3 /\ SubSeq(content, 1, 3) = Dashes
                 THEN {j \in LineEnds(content, 4) :
                         \E e \in j .. Len(content) : Closes(e)}
               ELSE {}
      j == CHOOSE j \in opens : \A k \in opens : k <= j
      e == CHOOSE e \in j .. Len(content) :
             Closes(e) /\ \A k \in j .. e - 1 : ~Closes(k)
      m == CHOOSE m \in LineEnds(content, e + 5) :
             \A k \in LineEnds(content, e + 5) : k <= m
  IN IF opens = {} THEN [matched |-> FALSE, frontMatterText |-> <<>>,
                         markdownContent |-> <<>>]
     ELSE [matched |-> TRUE, frontMatterText |-> SubSeq(content, j + 1, e),
           markdownContent |-> SubSeq(content, m + 1, Len(content))]

\* frontMatter[key] after the forEach: the value of the last line that has
\* this key before a colon that is not the first character; '' when none
FrontMatterValue(lines, key) ==
  LET Colon(line) == CHOOSE i \in 1 .. Len(line) :
                       line[i] = ":" /\ \A j \in 1 .. i - 1 : line[j] # ":"
      Keyed(line) == /\ \E i \in 2 .. Len(line) : line[i] = ":"
                     /\ line[1] # ":"
                     /\ Trim(SubSeq(line, 1, Colon(line) - 1)) = key
      ks == {k \in 1 .. Len(lines) : Keyed(lines[k])}
      k == CHOOSE k \in ks : \A x \in ks : x <= k
  IN IF ks = {} THEN <<>>
     ELSE Trim(SubSeq(lines[k], Colon(lines[k]) + 1, Len(lines[k])))

\* parseMarkdownContent on the text of a file
parseMarkdownText(content, slug) ==
  LET match == frontMatterMatch(content)
      lines == Split(match.frontMatterText)
      title == FrontMatterValue(lines, <<"t", "i", "t", "l", "e">>)
      fmSlug == FrontMatterValue(lines, <<"s", "l", "u", "g">>)
      status == FrontMatterValue(lines, <<"s", "t", "a", "t", "u", "s">>)
  IN IF ~match.matched
       THEN [title |-> TitleFromSlug(slug), slug |-> slug,
             content |-> Trim(content), status |-> "published"]
     ELSE [title |-> IF title # <<>> THEN title ELSE TitleFromSlug(slug),
           slug |-> IF fmSlug # <<>> THEN fmSlug ELSE slug,
           content |-> Trim(match.markdownContent),
           status |-> IF status = <<"d", "r", "a", "f", "t">> THEN "draft"
                      ELSE "published"]

Markdown(article) ==
  [title |-> article.title, slug |-> None, status |-> None,
   content |-> article.content]

\* the publication that writes the status before the remote write
publishArticleToGitHubEager(db, h, articleId, userId, rs) ==
  IF articleId \notin DOMAIN db.articles
    THEN Failed(ArticleNotFoundError, <<>>, db, h)
  ELSE
    LET article == db.articles[articleId]
        site == db.sites[article.siteId]
        tok == getUserGitHubToken(db, userId, rs[1])
        updated == ArticleUpdate(tok.db, articleId, [status |-> "published"])
        result == publishArticleToRepo(h, site.gitRepo, article.slug,
                                       Markdown(article), rs[2], rs[3])
    IN IF site.userId # userId
         THEN Failed(ArticleAccessDeniedError, <<>>, db, h)
       ELSE IF site.gitRepo = NoRepo
         THEN Failed(NoLinkedRepoError, <<>>, db, h)
       ELSE IF ~tok.ok
         THEN WithToken(Failed(tok.error, tok.trace, tok.db, h), tok)
       ELSE IF result.status # "ok"
         THEN WithToken(Failed(GitProviderError(result.error),
                               tok.trace \o result.trace, updated.db, h), tok)
       ELSE WithToken(
              Done([article |-> updated.db.articles[articleId],
                    published |-> result.published,
                    filePath |-> result.filePath,
                    wasUpdate |-> result.wasUpdate],
                   tok.trace \o result.trace, updated.db, result.hosted), tok)

\* the publish that unlinks the repository of the site when the host fails
publishArticleToGitHubUnlinks(db, h, articleId, userId, rs) ==
  IF articleId \notin DOMAIN db.articles
    THEN Failed(ArticleNotFoundError, <<>>, db, h)
  ELSE
    LET article == db.articles[articleId]
        site == db.sites[article.siteId]
        tok == getUserGitHubToken(db, userId, rs[1])
        result == publishArticleToRepo(h, site.gitRepo, article.slug,
                                       Markdown(article), rs[2], rs[3])
        updated == ArticleUpdate(tok.db, articleId, [status |-> "published"])
    IN IF site.userId # userId
         THEN Failed(ArticleAccessDeniedError, <<>>, db, h)
       ELSE IF site.gitRepo = NoRepo
         THEN Failed(NoLinkedRepoError, <<>>, db, h)
       ELSE IF ~tok.ok
         THEN WithToken(Failed(tok.error, tok.trace, tok.db, h), tok)
       ELSE IF result.status # "ok"
         THEN WithToken(Failed(GitProviderError(result.error),
                               tok.trace \o result.trace,
                               [tok.db EXCEPT
                                  !.sites[article.siteId].gitRepo = NoRepo],
                               h), tok)
       ELSE WithToken(
              Done([article |-> updated.db.articles[articleId],
                    published |-> result.published,
                    filePath |-> result.filePath,
                    wasUpdate |-> result.wasUpdate],
                   tok.trace \o result.trace, updated.db, result.hosted), tok)

publishArticleToGitHub(db, h, articleId, userId, rs) ==
  IF articleId \notin DOMAIN db.articles
    THEN Failed(ArticleNotFoundError, <<>>, db, h)
  ELSE
    LET article == db.articles[articleId]
        site == db.sites[article.siteId]
        tok == getUserGitHubToken(db, userId, rs[1])
        result == publishArticleToRepo(h, site.gitRepo, article.slug,
                                       Markdown(article), rs[2], rs[3])
        updated == ArticleUpdate(tok.db, articleId, [status |-> "published"])
    IN IF site.userId # userId
         THEN Failed(ArticleAccessDeniedError, <<>>, db, h)
       ELSE IF site.gitRepo = NoRepo
         THEN Failed(NoLinkedRepoError, <<>>, db, h)
       ELSE IF ~tok.ok
         THEN WithToken(Failed(tok.error, tok.trace, tok.db, h), tok)
       ELSE IF result.status # "ok"
         THEN WithToken(Failed(GitProviderError(result.error),
                               tok.trace \o result.trace, tok.db, h), tok)
       ELSE WithToken(
              Done([article |-> updated.db.articles[articleId],
                    published |-> result.published,
                    filePath |-> result.filePath,
                    wasUpdate |-> result.wasUpdate],
                   tok.trace \o result.trace, updated.db, result.hosted), tok)

\* the removal that resolves the token before it looks at the linked repository
deleteArticleFromGitHubTokenFirst(db, h, articleId, userId, rs) ==
  IF articleId \notin DOMAIN db.articles
    THEN Failed(ArticleNotFoundError, <<>>, db, h)
  ELSE
    LET article == db.articles[articleId]
        site == db.sites[article.siteId]
        tok == getUserGitHubToken(db, userId, rs[1])
        result == deleteArticleFromRepo(h, site.gitRepo, article.slug,
                                        rs[2], rs[3])
    IN IF site.userId # userId
         THEN Failed(ArticleAccessDeniedError, <<>>, db, h)
       ELSE IF ~tok.ok
         THEN WithToken(Failed(tok.error, tok.trace, tok.db, h), tok)
       ELSE IF site.gitRepo = NoRepo
         THEN WithToken(
                Done([deleted |-> FALSE,
                      reason |-> "Site does not have a linked Git repository",
                      filePath |-> None], tok.trace, tok.db, h), tok)
       ELSE IF result.status # "ok"
         THEN WithToken(Failed(GitProviderError(result.error),
                               tok.trace \o result.trace, tok.db, h), tok)
       ELSE WithToken(
              Done([deleted |-> result.deleted, reason |-> result.reason,
                    filePath |-> result.filePath],
                   tok.trace \o result.trace, tok.db, result.hosted), tok)

deleteArticleFromGitHub(db, h, articleId, userId, rs) ==
  IF articleId \notin DOMAIN db.articles
    THEN Failed(ArticleNotFoundError, <<>>, db, h)
  ELSE
    LET article == db.articles[articleId]
        site == db.sites[article.siteId]
        tok == getUserGitHubToken(db, userId, rs[1])
        result == deleteArticleFromRepo(h, site.gitRepo, article.slug,
                                        rs[2], rs[3])
    IN IF site.userId # userId
         THEN Failed(ArticleAccessDeniedError, <<>>, db, h)
       ELSE IF site.gitRepo = NoRepo
         THEN Done([deleted |-> FALSE,
                    reason |-> "Site does not have a linked Git repository",
                    filePath |-> None], <<>>, db, h)
       ELSE IF ~tok.ok
         THEN WithToken(Failed(tok.error, tok.trace, tok.db, h), tok)
       ELSE IF result.status # "ok"
         THEN WithToken(Failed(GitProviderError(result.error),
                               tok.trace \o result.trace, tok.db, h), tok)
       ELSE WithToken(
              Done([deleted |-> result.deleted, reason |-> result.reason,
                    filePath |-> result.filePath],
                   tok.trace \o result.trace, tok.db, result.hosted), tok)

\* GitHubAPIError of the article service's own GitHub client
GitHubAPIError(resp) == [kind |-> "GitHubAPIError", message |-> resp.status]

\* deleteArticle of the article service that removes the hosted file first;
\* its try/catch around the two yields sees no failed effect
deleteArticleAndFile(db, h, articleId, userId, rs) ==
  IF articleId \notin DOMAIN db.articles
    THEN Failed(ArticleNotFoundError, <<>>, db, h)
  ELSE
    LET article == db.articles[articleId]
        site == db.sites[article.siteId]
        tok == getUserGitHubToken(db, userId, rs[1])
        result == deleteArticleFromRepo(h, site.gitRepo, article.slug,
                                        rs[2], rs[3])
    IN IF site.userId # userId
         THEN Failed(ArticleAccessDeniedError, <<>>, db, h)
       ELSE IF site.gitRepo = NoRepo
         THEN Done([article |-> article, gitHubDeleted |-> FALSE,
                    gitHubError |-> None],
                   <<>>, ArticleDelete(db, articleId), h)
       ELSE IF ~tok.ok
         THEN WithToken(Failed(tok.error, tok.trace, tok.db, h), tok)
       ELSE IF result.status # "ok"
         THEN WithToken(Failed(GitHubAPIError(result.error),
                               tok.trace \o result.trace, tok.db, h), tok)
       ELSE WithToken(
              Done([article |-> article, gitHubDeleted |-> result.deleted,
                    gitHubError |-> None],
                   tok.trace \o result.trace,
                   ArticleDelete(tok.db, articleId), result.hosted), tok)

\* the loop that overwrites the Article a file's slug names already
RECURSIVE ImportLoopOverwrite(_, _, _, _)
ImportLoopOverwrite(db, siteId, arts, i) ==
  IF i > Len(arts) THEN [db |-> db, imported |-> <<>>, full |-> FALSE]
  ELSE LET data == [siteId |-> siteId, title |-> arts[i].title,
                    slug |-> arts[i].slug, content |-> arts[i].content,
                    status |-> arts[i].status]
           existing == findBySiteIdAndSlug(db, siteId, arts[i].slug)
       IN IF existing # {}
            THEN LET id == CHOOSE x \in existing : TRUE
                     rest == ImportLoopOverwrite(
                               [db EXCEPT !.articles[id] = data], siteId,
                               arts, i + 1)
                 IN [db |-> rest.db, imported |-> <<id>> \o rest.imported,
                     full |-> rest.full]
          ELSE IF FreeIds(db.articles, ArticleIds) = {}
            THEN [db |-> db, imported |-> <<>>, full |-> TRUE]
          ELSE LET created == ArticleCreate(db, data)
                   rest == ImportLoopOverwrite(created.db, siteId, arts, i + 1)
               IN [db |-> rest.db,
                   imported |-> <<created.id>> \o rest.imported,
                   full |-> rest.full]

\* the loop of importArticlesFromGitHub over the parsed files
RECURSIVE ImportLoop(_, _, _, _)
ImportLoop(db, siteId, arts, i) ==
  IF i > Len(arts) THEN [db |-> db, imported |-> <<>>, full |-> FALSE]
  ELSE IF findBySiteIdAndSlug(db, siteId, arts[i].slug) # {}
    THEN ImportLoop(db, siteId, arts, i + 1)
  ELSE IF FreeIds(db.articles, ArticleIds) = {}
    THEN [db |-> db, imported |-> <<>>, full |-> TRUE]
  ELSE LET created ==
             ArticleCreate(db, [siteId |-> siteId, title |-> arts[i].title,
                                slug |-> arts[i].slug,
                                content |-> arts[i].content,
                                status |-> arts[i].status])
           rest == ImportLoop(created.db, siteId, arts, i + 1)
       IN [db |-> rest.db, imported |-> <<created.id>> \o rest.imported,
           full |-> rest.full]

\* the import that resolves the token before it looks at the site
importArticlesFromGitHubTokenFirst(db, h, siteId, userId, rs) ==
  LET tok == getUserGitHubToken(db, userId, rs[1])
  IN
  IF ~tok.ok
    THEN WithToken(Failed(tok.error, tok.trace, tok.db, h), tok)
  ELSE IF siteId \notin DOMAIN db.sites
    THEN Failed(SiteAccessError, <<>>, db, h)
  ELSE
    LET site == db.sites[siteId]
        repoInfo == getRepositoryInfo(h, site.gitRepo, rs[2])
        files == getMarkdownFilesFromRepo(h, site.gitRepo, rs[3],
                                          SubSeq(rs, 4, Len(rs)))
        loop == ImportLoop(tok.db, siteId, files.articles, 1)
    IN IF site.userId # userId
         THEN Failed(SiteAccessError, <<>>, db, h)
       ELSE IF site.gitRepo = NoRepo
         THEN Failed(NoLinkedRepoError, <<>>, db, h)
       ELSE IF ~tok.ok
         THEN WithToken(Failed(tok.error, tok.trace, tok.db, h), tok)
       ELSE IF repoInfo.status # "ok"
         THEN WithToken(Failed(GitProviderError(repoInfo.error),
                               tok.trace \o repoInfo.trace, tok.db, h), tok)
       ELSE IF files.status # "ok"
         THEN WithToken(Failed(GitProviderError(files.error),
                               tok.trace \o repoInfo.trace \o files.trace,
                               tok.db, h), tok)
       ELSE WithToken(
              [Done([imported |-> Len(loop.imported),
                     total |-> Len(files.articles),
                     articles |-> loop.imported],
                    tok.trace \o repoInfo.trace \o files.trace, loop.db, h)
                 EXCEPT !.full = loop.full], tok)

importArticlesFromGitHub(db, h, siteId, userId, rs) ==
  IF siteId \notin DOMAIN db.sites
    THEN Failed(SiteAccessError, <<>>, db, h)
  ELSE
    LET site == db.sites[siteId]
        tok == getUserGitHubToken(db, userId, rs[1])
        repoInfo == getRepositoryInfo(h, site.gitRepo, rs[2])
        files == getMarkdownFilesFromRepo(h, site.gitRepo, rs[3],
                                          SubSeq(rs, 4, Len(rs)))
        loop == ImportLoop(tok.db, siteId, files.articles, 1)
    IN IF site.userId # userId
         THEN Failed(SiteAccessError, <<>>, db, h)
       ELSE IF site.gitRepo = NoRepo
         THEN Failed(NoLinkedRepoError, <<>>, db, h)
       ELSE IF ~tok.ok
         THEN WithToken(Failed(tok.error, tok.trace, tok.db, h), tok)
       ELSE IF repoInfo.status # "ok"
         THEN WithToken(Failed(GitProviderError(repoInfo.error),
                               tok.trace \o repoInfo.trace, tok.db, h), tok)
       ELSE IF files.status # "ok"
         THEN WithToken(Failed(GitProviderError(files.error),
                               tok.trace \o repoInfo.trace \o files.trace,
                               tok.db, h), tok)
       ELSE WithToken(
              [Done([imported |-> Len(loop.imported),
                     total |-> Len(files.articles),
                     articles |-> loop.imported],
                    tok.trace \o repoInfo.trace \o files.trace, loop.db, h)
                 EXCEPT !.full = loop.full], tok)

\* the outer Effect.catchAll of createRepositoryWithPages
RepositoryCreationError(data) ==
  [kind |-> "RepositoryCreationError",
   repoName |-> data.name,
   reason |-> "Unknown error"]

\* the Effect.catchAll around enableGitHubPages
PagesDeploymentError(fullName) ==
  [kind |-> "PagesDeploymentError",
   repoName |-> fullName,
   reason |-> "Unknown error"]

\* what createRepositoryWithPages fails with when its step fails with error
ProvisionFailure(data, error) == RepositoryCreationError(data)

\* createRepositoryWithPages taken as one step of a request: failStep is the
\* step whose hosting call the provider answers with r when r is an error
ProvisionSteps == {"create", "substitute", "pages"}

createRepositoryWithPages(h, owner, data, failStep, r, content) ==
  LET fullName == FullName(owner, data.name)
      gen == ServeGenerate(h, fullName,
                           IF failStep = "create" THEN r ELSE OkResponse)
      created == Generate(h, fullName, content)
      c1 == <<Call("generate", gen)>>
  IN IF ~IsOk(gen)
       THEN [status |-> "failed", error |-> ProvisionFailure(data, gen),
             trace |-> c1, hosted |-> h, fullName |-> NoRepo]
     ELSE IF ~IsOk(r) /\ failStep = "substitute"
       THEN [status |-> "failed", error |-> ProvisionFailure(data, r),
             trace |-> Append(c1, Call("tree", r)), hosted |-> created,
             fullName |-> NoRepo]
     ELSE IF ~IsOk(r) /\ failStep = "pages"
       THEN [status |-> "failed",
             error |-> ProvisionFailure(data, PagesDeploymentError(fullName)),
             trace |-> c1 \o <<Call("tree", OkResponse), Call("pages", r)>>,
             hosted |-> created, fullName |-> NoRepo]
     ELSE [status |-> "ok", error |-> NoErr,
           trace |-> c1 \o <<Call("tree", OkResponse),
                             Call("pages", OkResponse)>>,
           hosted |-> created, fullName |-> fullName]

\* the creation that saves the Site row before the repository is provisioned
createSiteEager(db, h, data, rs, failStep, content) ==
  LET tok == getUserGitHubToken(db, data.userId, rs[1])
      c2 == <<Call("user", rs[2])>>
      repo == createRepositoryWithPages(h, data.userId, data, failStep, rs[3],
                                        content)
      site == SiteCreate(tok.db, [userId |-> data.userId, name |-> data.name,
                                  gitRepo |-> FullName(data.userId, data.name)])
      imp == importArticlesFromGitHub(site.db, repo.hosted, site.id,
                                      data.userId, SubSeq(rs, 4, Len(rs)))
      t3 == tok.trace \o c2 \o repo.trace
  IN IF ~tok.ok
       THEN WithToken(Failed(tok.error, tok.trace, tok.db, h), tok)
     ELSE IF ~IsOk(rs[2])
       THEN WithToken(Failed(GitProviderError(rs[2]), tok.trace \o c2, tok.db, h),
                      tok)
     ELSE IF ~site.ok
       THEN WithToken(Failed(Defect("Unique constraint"), t3, tok.db,
                             repo.hosted), tok)
     ELSE IF repo.status # "ok"
       THEN WithToken(Failed(repo.error, t3, site.db, repo.hosted), tok)
     ELSE IF imp.status # "ok"
       THEN [imp EXCEPT !.trace = t3 \o @]
     ELSE [Done([site |-> site.id, gitRepo |-> repo.fullName],
                t3 \o imp.trace, imp.db, imp.hosted)
             EXCEPT !.full = imp.full, !.resolution = imp.resolution]

\* createSite; the user's name on the hosting provider is the user's id
createSite(db, h, data, rs, failStep, content) ==
  LET tok == getUserGitHubToken(db, data.userId, rs[1])
      c2 == <<Call("user", rs[2])>>
      repo == createRepositoryWithPages(h, data.userId, data, failStep, rs[3],
                                        content)
      site == SiteCreate(tok.db, [userId |-> data.userId, name |-> data.name,
                                  gitRepo |-> repo.fullName])
      imp == importArticlesFromGitHub(site.db, repo.hosted, site.id,
                                      data.userId, SubSeq(rs, 4, Len(rs)))
      t3 == tok.trace \o c2 \o repo.trace
  IN IF ~tok.ok
       THEN WithToken(Failed(tok.error, tok.trace, tok.db, h), tok)
     ELSE IF ~IsOk(rs[2])
       THEN WithToken(Failed(GitProviderError(rs[2]), tok.trace \o c2, tok.db, h),
                      tok)
     ELSE IF repo.status # "ok"
       THEN WithToken(Failed(repo.error, t3, tok.db, repo.hosted), tok)
     ELSE IF ~site.ok
       THEN WithToken(Failed(Defect("Unique constraint"), t3, tok.db,
                             repo.hosted), tok)
     ELSE IF imp.status # "ok"
       THEN [imp EXCEPT !.trace = t3 \o @]
     ELSE [Done([site |-> site.id, gitRepo |-> repo.fullName],
                t3 \o imp.trace, imp.db, imp.hosted)
             EXCEPT !.full = imp.full, !.resolution = imp.resolution]

(***************************************************************************)
(* Routes: the handlers of POST /sites and POST /articles                  *)
(***************************************************************************)
\* the handler that creates the site before it validates the name
postSitesLate(db, h, userId, body, rs, failStep, content) ==
  LET validName == validateSiteName(body.name)
      site == createSite(db, h, [userId |-> userId, name |-> body.name], rs,
                         failStep, content)
  IN IF site.status = "ok" /\ ~validName.ok
       THEN [site EXCEPT !.status = "failed", !.error = validName.error,
                         !.info = NoInfo]
     ELSE site

postSites(db, h, userId, body, rs, failStep, content) ==
  LET validName == validateSiteName(body.name)
  IN IF ~validName.ok THEN Failed(validName.error, <<>>, db, h)
     ELSE createSite(db, h, [userId |-> userId, name |-> validName.value],
                     rs, failStep, content)

\* an absent slug and an empty one are both falsy
postArticles(db, h, userId, body) ==
  LET validTitle == validateTitle(body.title)
      validSlug == IF body.slug # <<>> THEN validateSlug(body.slug)
                   ELSE generateSlugFromTitle(validTitle.value)
  IN IF ~validTitle.ok THEN Failed(validTitle.error, <<>>, db, h)
     ELSE IF ~validSlug.ok THEN Failed(validSlug.error, <<>>, db, h)
     ELSE createArticle(db, h, userId,
                        [siteId |-> body.siteId, title |-> validTitle.value,
                         slug |-> validSlug.value, content |-> body.content,
                         status |-> "draft"])

\* PUT /articles/:id with a body that carries a slug, or none
putArticles(db, h, articleId, userId, body) ==
  LET validSlug == validateSlug(body.slug)
  IN IF body.slug # <<>> /\ ~validSlug.ok
       THEN Failed(validSlug.error, <<>>, db, h)
     ELSE updateArticle(db, h, articleId, userId,
                        IF body.slug # <<>> THEN [slug |-> validSlug.value]
                        ELSE <<>>)

VARIABLES
  pc,        \* position of the provider operation in progress
  req,       \* its arguments
  attempts,  \* tree listings issued by the operation
  delay,     \* milliseconds slept before the latest listing
  files,     \* blobs of the listed tree
  fileIdx,   \* position of the placeholder loop in files
  calls,     \* hosting calls issued by the operation, by kind
  failures,  \* hosting calls of the operation that failed, by kind
  lastError, \* response of the latest failed hosting call
  outcome,   \* result of the operation
  hosted,    \* content/{slug}.md files of every hosted repository
  gitIntegrations, \* rows of git_integrations
  sites,     \* rows of sites, by id
  articles,  \* rows of articles, by id
  last,      \* the latest service request and its response
  running    \* the requests in flight, by process

pvars ==
  <<pc, req, attempts, delay, files, fileIdx, calls, failures, lastError,
    outcome>>

dbvars == <<gitIntegrations, sites, articles>>

svcvars == <<hosted, dbvars, last, running>>

vars == <<pvars, svcvars>>

NoReq == [op |-> None]
NoRunning == [p \in {} |-> NoReq]
NoOutcome == [status |-> "none"]
NoError == [status |-> 0, emptyMsg |-> FALSE]

InitProvider ==
  /\ pc = "idle"
  /\ req = NoReq
  /\ attempts = 0
  /\ delay = 0
  /\ files = <<>>
  /\ fileIdx = 0
  /\ calls = NoCalls
  /\ failures = NoCalls
  /\ lastError = NoError
  /\ outcome = NoOutcome

Bump(f, k) == [f EXCEPT ![k] = @ + 1]

\* a hosting call of kind k answered by r
Issue(k, r) ==
  /\ calls' = Bump(calls, k)
  /\ failures' = IF IsOk(r) THEN failures ELSE Bump(failures, k)
  /\ lastError' = IF IsOk(r) THEN lastError ELSE r

\* a failed step that lets the chain go on to the pages step
FailAtGoesOn(step, error) ==
  /\ pc' = "pages"
  /\ UNCHANGED outcome

\* the operation fails at step with error
FailAt(step, error) ==
  /\ pc' = "done"
  /\ outcome' = [status |-> "failed", step |-> step, error |-> error]

\* createRepositoryWithPages is called
ProvisionBegin(owner, name, withTemplate) ==
  /\ pc \in {"idle", "done"}
  /\ pc' = "create"
  /\ req' = [op |-> "createRepositoryWithPages", owner |-> owner,
             name |-> name, templateData |-> withTemplate]
  /\ attempts' = 0
  /\ delay' = 0
  /\ files' = <<>>
  /\ fileIdx' = 0
  /\ calls' = NoCalls
  /\ failures' = NoCalls
  /\ lastError' = NoError
  /\ outcome' = NoOutcome
  /\ UNCHANGED svcvars

\* Step 1: createRepoFromTemplate
CreateRepoFromTemplate(r0, content) ==
  LET r == ServeGenerate(hosted, FullName(req.owner, req.name), r0) IN
  /\ pc = "create"
  /\ Issue("generate", r)
  /\ IF IsOk(r)
       THEN /\ hosted' = Generate(hosted, FullName(req.owner, req.name), content)
            /\ pc' = IF req.templateData THEN "list" ELSE "pages"
            /\ delay' = IF req.templateData THEN InitialDelay ELSE delay
            /\ UNCHANGED outcome
       ELSE /\ FailAt("create", ProvisionFailure(req, r))
            /\ UNCHANGED <<hosted, delay>>
  /\ UNCHANGED <<req, attempts, files, fileIdx>>
  /\ UNCHANGED <<dbvars, last, running>>

\* Step 2, getRepoFiles under Effect.retry
GetRepoFiles(r, tree) ==
  /\ pc = "list"
  /\ Issue("tree", r)
  /\ attempts' = attempts + 1
  /\ IF IsOk(r)
       THEN /\ files' = [k \in 1 .. Len(SelectSeq(tree, IsBlob)) |->
                          Unprocessed(SelectSeq(tree, IsBlob)[k])]
            /\ fileIdx' = 1
            /\ pc' = "file"
            /\ UNCHANGED <<outcome, delay>>
       ELSE IF ScheduleContinues(attempts + 1, r)
         THEN /\ delay' = BackoffDelay(attempts + 1)
              /\ UNCHANGED <<pc, outcome, files, fileIdx>>
         ELSE /\ FailAt("substitute", ProvisionFailure(req, r))
              /\ UNCHANGED <<files, fileIdx, delay>>
  /\ UNCHANGED <<req>>
  /\ UNCHANGED svcvars

\* the loop over files: a file that is not text-like is passed over
SkipFile ==
  /\ pc = "file"
  /\ fileIdx <= Len(files)
  /\ ~shouldProcessFile(files[fileIdx])
  /\ fileIdx' = fileIdx + 1
  /\ UNCHANGED <<pc, req, attempts, delay, files, calls, failures, lastError,
                 outcome>>
  /\ UNCHANGED svcvars

\* the fetch that goes on to the next file while the write-back is pending
FetchFileAhead(r, sha) ==
  /\ pc = "file"
  /\ fileIdx <= Len(files)
  /\ shouldProcessFile(files[fileIdx])
  /\ Issue("getFile", r)
  /\ IF IsOk(r)
       THEN /\ pc' = "file"
            /\ fileIdx' = fileIdx + 1
            /\ files' = [files EXCEPT ![fileIdx].fetched = sha]
            /\ UNCHANGED outcome
       ELSE /\ FailAt("substitute", ProvisionFailure(req, r))
            /\ UNCHANGED <<fileIdx, files>>
  /\ UNCHANGED <<req, attempts, delay>>
  /\ UNCHANGED svcvars

\* processFileWithPlaceholders up to its write: fileData is fetched, with
\* the sha the file has by then
FetchFile(r, sha) ==
  /\ pc = "file"
  /\ fileIdx <= Len(files)
  /\ shouldProcessFile(files[fileIdx])
  /\ Issue("getFile", r)
  /\ IF IsOk(r)
       THEN /\ pc' = IF hasChanges(files[fileIdx]) THEN "put" ELSE "file"
            /\ fileIdx' = IF hasChanges(files[fileIdx]) THEN fileIdx ELSE fileIdx + 1
            /\ files' = [files EXCEPT ![fileIdx].fetched = sha]
            /\ UNCHANGED outcome
       ELSE /\ FailAt("substitute", ProvisionFailure(req, r))
            /\ UNCHANGED <<fileIdx, files>>
  /\ UNCHANGED <<req, attempts, delay>>
  /\ UNCHANGED svcvars

\* the write-back that carries the sha of the tree listing
UpdateFileListedSha(r) ==
  /\ pc = "put"
  /\ Issue("putFile", r)
  /\ files' = [files EXCEPT ![fileIdx].written = files[fileIdx].sha]
  /\ IF IsOk(r)
       THEN /\ pc' = "file"
            /\ fileIdx' = fileIdx + 1
            /\ UNCHANGED outcome
       ELSE /\ FailAt("substitute", ProvisionFailure(req, r))
            /\ UNCHANGED fileIdx
  /\ UNCHANGED <<req, attempts, delay>>
  /\ UNCHANGED svcvars

\* updateFileContent(..., updatedContent, message, fileData.sha)
UpdateFile(r) ==
  /\ pc = "put"
  /\ Issue("putFile", r)
  /\ files' = [files EXCEPT ![fileIdx].written = files[fileIdx].fetched]
  /\ IF IsOk(r)
       THEN /\ pc' = "file"
            /\ fileIdx' = fileIdx + 1
            /\ UNCHANGED outcome
       ELSE /\ FailAt("substitute", ProvisionFailure(req, r))
            /\ UNCHANGED fileIdx
  /\ UNCHANGED <<req, attempts, delay>>
  /\ UNCHANGED svcvars

\* the loop over files has ended
FilesDone ==
  /\ pc = "file"
  /\ fileIdx > Len(files)
  /\ pc' = "pages"
  /\ UNCHANGED <<req, attempts, delay, files, fileIdx, calls, failures,
                 lastError, outcome>>
  /\ UNCHANGED svcvars

\* Step 3: enableGitHubPages
EnablePages(r) ==
  /\ pc = "pages"
  /\ Issue("pages", r)
  /\ IF IsOk(r)
       THEN /\ pc' = "done"
            /\ outcome' = [status |-> "ok",
                           fullName |-> FullName(req.owner, req.name)]
       ELSE FailAt("pages",
                   ProvisionFailure(req,
                     PagesDeploymentError(FullName(req.owner, req.name))))
  /\ UNCHANGED <<req, attempts, delay, files, fileIdx>>
  /\ UNCHANGED svcvars

(***************************************************************************)
(* The provider's single-purpose operations, each taken as one step        *)
(***************************************************************************)
RECURSIVE CountCalls(_, _, _)
CountCalls(trace, k, failedOnly) ==
  IF trace = <<>> THEN 0
  ELSE (IF Head(trace).kind = k /\ (~failedOnly \/ Head(trace).status # 200)
          THEN 1 ELSE 0)
       + CountCalls(Tail(trace), k, failedOnly)

\* the repository the single-purpose operations are tried on
ProbeRepo == FullName("u1", "blog")

\* operation op of the provider ran to its end with result
ProviderOp(op, result) ==
  /\ pc \in {"idle", "done"}
  /\ pc' = "done"
  /\ req' = [op |-> op, owner |-> "u1", name |-> "blog",
             templateData |-> FALSE]
  /\ attempts' = 0
  /\ delay' = 0
  /\ files' = <<>>
  /\ fileIdx' = 0
  /\ calls' = [k \in CallKinds |-> CountCalls(result.trace, k, FALSE)]
  /\ failures' = [k \in CallKinds |-> CountCalls(result.trace, k, TRUE)]
  /\ lastError' = IF result.status = "ok" THEN NoError ELSE result.error
  /\ outcome' = [status |-> result.status, step |-> op,
                 error |-> result.error, trace |-> result.trace]
  /\ hosted' = result.hosted
  /\ UNCHANGED <<dbvars, last, running>>

ValidateGitHubToken(r) ==
  LET v == validateGitHubToken(r)
  IN ProviderOp("validateGitHubToken",
                [status |-> IF v.isValid THEN "ok" ELSE "failed",
                 error |-> r, trace |-> v.trace, hosted |-> hosted])

PublishArticleToRepo(slug, content, rGet, rPut) ==
  LET p == publishArticleToRepo(hosted, ProbeRepo, slug, content, rGet, rPut)
  IN ProviderOp("publishArticleToRepo",
                [status |-> p.status,
                 error |-> IF p.status = "ok" THEN OkResponse ELSE p.error,
                 trace |-> p.trace, hosted |-> p.hosted])

DeleteArticleFromRepoOp(slug, rGet, rDel) ==
  LET d == deleteArticleFromRepo(hosted, ProbeRepo, slug, rGet, rDel)
  IN ProviderOp("deleteArticleFromRepo",
                [status |-> d.status,
                 error |-> IF d.status = "ok" THEN OkResponse ELSE d.error,
                 trace |-> d.trace, hosted |-> d.hosted])

\* answers the single-purpose operations are tried with
ProbeResponses ==
  {OkResponse, NotFound, [status |-> 500, emptyMsg |-> FALSE]}

\* the markdown a publication is tried with
ProbeContent ==
  [title |-> "T", slug |-> None, status |-> None, content |-> <<" ", "y">>]

NextProvision ==
  \/ \E t \in BOOLEAN : ProvisionBegin("u1", "blog", t)
  \/ \E r \in Responses : CreateRepoFromTemplate(r, NoFiles)
  \/ \E r \in Responses, tree \in Trees : GetRepoFiles(r, tree)
  \/ SkipFile
  \/ \E r \in Responses : FetchFile(r, ListedSha)
  \/ \E r \in Responses : UpdateFile(r)
  \/ FilesDone
  \/ \E r \in Responses : EnablePages(r)
  \/ \E r \in Responses : ValidateGitHubToken(r)
  \/ \E sl \in Slugs, rGet \in ProbeResponses, rPut \in ProbeResponses :
       PublishArticleToRepo(sl, ProbeContent, rGet, rPut)
  \/ \E sl \in Slugs, rGet \in ProbeResponses, rDel \in ProbeResponses :
       DeleteArticleFromRepoOp(sl, rGet, rDel)


(***************************************************************************)
(* Service requests, one at a time                                         *)
(***************************************************************************)
DB == [gitIntegrations |-> gitIntegrations, sites |-> sites,
       articles |-> articles]

NoRows == [i \in {} |-> None]

ServerError == [status |-> 500, emptyMsg |-> FALSE]

\* answers the provider may give whatever its state
FaultResponses == {NotFound, ServerError}

\* hosting calls of an import, of a publication or removal, of createSite
ImportCalls == 3 + Cardinality(Slugs)
PublishCalls == 3
CreateSiteCalls == 3 + ImportCalls

\* the answers to n calls of which call number at gets resp
Rs(at, resp, n) == [k \in 1 .. n |-> IF k = at THEN resp ELSE OkResponse]

\* the provider answers every call by its state
NoFault(n) == Rs(0, ServerError, n)

NoTarget == [site |-> 0, article |-> 0]

NoLast ==
  [op |-> None, userId |-> None, target |-> NoTarget, status |-> None,
   error |-> NoErr, info |-> NoInfo, trace |-> <<>>, resolution |-> None]

Init ==
  /\ InitProvider
  /\ hosted = NoRows
  /\ gitIntegrations = {}
  /\ sites = NoRows
  /\ articles = NoRows
  /\ last = NoLast
  /\ running = NoRunning

\* the request op of userId on target is answered with res
Respond(op, userId, target, res) ==
  /\ ~res.full
  /\ last' = [op |-> op, userId |-> userId, target |-> target,
              status |-> res.status, error |-> res.error, info |-> res.info,
              trace |-> res.trace, resolution |-> res.resolution]
  /\ gitIntegrations' = res.db.gitIntegrations
  /\ sites' = res.db.sites
  /\ articles' = res.db.articles
  /\ hosted' = res.hosted
  /\ UNCHANGED <<pvars, running>>

OnSite(id) == [site |-> id, article |-> 0]
OnArticle(id) == [site |-> 0, article |-> id]

\* OAuth callback: processGitHubOAuth stores the token
UpsertGitIntegration(userId, token) ==
  Respond("upsertGitIntegration", userId, NoTarget,
          Done(NoInfo, <<>>,
               upsertGitIntegration(DB, [userId |-> userId,
                                         platform |-> "github",
                                         accessToken |-> token]),
               hosted))

GetUserGitHubToken(userId, r) ==
  LET tok == getUserGitHubToken(DB, userId, r)
  IN Respond("getUserGitHubToken", userId, NoTarget,
             WithToken(IF tok.ok
                         THEN Done([token |-> tok.token], tok.trace, tok.db,
                                   hosted)
                         ELSE Failed(tok.error, tok.trace, tok.db, hosted),
                       tok))

CreateSite(userId, name, rs, failStep, content) ==
  /\ FreeIds(sites, SiteIds) # {}
  /\ Respond("createSite", userId, NoTarget,
             createSite(DB, hosted, [userId |-> userId, name |-> name], rs,
                        failStep, content))

FindSite(userId, siteId) ==
  Respond("findSiteById", userId, OnSite(siteId),
          findSiteById(DB, hosted, siteId, userId))

UpdateSite(userId, siteId, data) ==
  Respond("updateSite", userId, OnSite(siteId),
          updateSite(DB, hosted, siteId, userId, data))

DeleteSite(userId, siteId) ==
  Respond("deleteSite", userId, OnSite(siteId),
          deleteSite(DB, hosted, siteId, userId))

CreateArticle(userId, data) ==
  /\ FreeIds(articles, ArticleIds) # {}
  /\ Respond("createArticle", userId, OnSite(data.siteId),
             createArticle(DB, hosted, userId, data))

FindSiteArticles(userId, siteId) ==
  Respond("findSiteArticles", userId, OnSite(siteId),
          findSiteArticles(DB, hosted, siteId, userId))

FindArticle(userId, articleId) ==
  Respond("findArticleById", userId, OnArticle(articleId),
          findArticleById(DB, hosted, articleId, userId))

UpdateArticle(userId, articleId, data) ==
  Respond("updateArticle", userId, OnArticle(articleId),
          updateArticle(DB, hosted, articleId, userId, data))

DeleteArticle(userId, articleId) ==
  Respond("deleteArticle", userId, OnArticle(articleId),
          deleteArticle(DB, hosted, articleId, userId))

PublishArticle(userId, articleId, rs) ==
  Respond("publishArticleToGitHub", userId, OnArticle(articleId),
          publishArticleToGitHub(DB, hosted, articleId, userId, rs))

ImportArticles(userId, siteId, rs) ==
  Respond("importArticlesFromGitHub", userId, OnSite(siteId),
          importArticlesFromGitHub(DB, hosted, siteId, userId, rs))

DeleteArticleFromRepo(userId, articleId, rs) ==
  Respond("deleteArticleFromGitHub", userId, OnArticle(articleId),
          deleteArticleFromGitHub(DB, hosted, articleId, userId, rs))

DeleteArticleAndFile(userId, articleId, rs) ==
  Respond("deleteArticle", userId, OnArticle(articleId),
          deleteArticleAndFile(DB, hosted, articleId, userId, rs))

\* article rows a request may ask for
ArticleInputs ==
  [siteId : SiteIds, title : Titles, slug : Slugs, content : Bodies,
   status : {"draft"}]

AnyResponse == {OkResponse} \cup FaultResponses

(***************************************************************************)
(* Token resolution and the requests that resolve a token                  *)
(***************************************************************************)
NextToken ==
  \/ \E u \in Users, t \in Tokens : UpsertGitIntegration(u, t)
  \/ \E u \in Users, r \in AnyResponse : GetUserGitHubToken(u, r)
  \/ \E at \in 0 .. CreateSiteCalls, step \in ProvisionSteps :
       CreateSite("u1", "blog", Rs(at, ServerError, CreateSiteCalls), step,
                  NoFiles)
  \/ \E d \in ArticleInputs :
       d.slug = "a" /\ d.siteId = 1 /\ CreateArticle("u1", d)
  \/ \E a \in ArticleIds, at \in 0 .. PublishCalls :
       PublishArticle("u1", a, Rs(at, ServerError, PublishCalls))
  \/ \E s \in SiteIds, at \in 0 .. ImportCalls :
       ImportArticles("u1", s, Rs(at, ServerError, ImportCalls))
  \/ \E a \in ArticleIds, at \in 0 .. PublishCalls :
       DeleteArticleFromRepo("u1", a, Rs(at, ServerError, PublishCalls))

SpecToken == Init /\ [][NextToken]_vars

(***************************************************************************)
(* Publication and removal of the articles of one site                     *)
(***************************************************************************)
NextPublish ==
  \/ UpsertGitIntegration("u1", "t1")
  \/ CreateSite("u1", "blog", NoFault(CreateSiteCalls), "create", NoFiles)
  \/ \E d \in ArticleInputs : d.siteId = 1 /\ CreateArticle("u1", d)
  \/ \E u \in Users, a \in ArticleIds, at \in 0 .. PublishCalls,
        resp \in FaultResponses :
       PublishArticle(u, a, Rs(at, resp, PublishCalls))
  \/ \E a \in ArticleIds : DeleteArticleFromRepo("u1", a, NoFault(PublishCalls))

SpecPublish == Init /\ [][NextPublish]_vars

(***************************************************************************)
(* Import of the articles of one site                                      *)
(***************************************************************************)
NextImport ==
  \/ UpsertGitIntegration("u1", "t1")
  \/ \E c \in TemplateContents :
       CreateSite("u1", "blog", NoFault(CreateSiteCalls), "create", c)
  \/ \E d \in ArticleInputs : d.siteId = 1 /\ CreateArticle("u1", d)
  \/ \E a \in ArticleIds : DeleteArticle("u1", a)
  \/ \E u \in Users, s \in SiteIds, at \in 0 .. ImportCalls,
        resp \in FaultResponses :
       ImportArticles(u, s, Rs(at, resp, ImportCalls))

SpecImport == Init /\ [][NextImport]_vars

(***************************************************************************)
(* Deletion of the articles of one site, hosted file included              *)
(***************************************************************************)
NextDelete ==
  \/ UpsertGitIntegration("u1", "t1")
  \/ CreateSite("u1", "blog", NoFault(CreateSiteCalls), "create", NoFiles)
  \/ \E d \in ArticleInputs : d.siteId = 1 /\ CreateArticle("u1", d)
  \/ \E a \in ArticleIds : PublishArticle("u1", a, NoFault(PublishCalls))
  \/ \E u \in Users, a \in ArticleIds, at \in 0 .. PublishCalls,
        resp \in FaultResponses :
       DeleteArticleAndFile(u, a, Rs(at, resp, PublishCalls))

SpecDelete == Init /\ [][NextDelete]_vars

(***************************************************************************)
(* A site saved without a linked repository, next to a provisioned one     *)
(***************************************************************************)
\* siteRepo.create stores gitRepo '' for a site created without a repository
UnlinkedSite == [userId |-> "u1", name |-> "notes", gitRepo |-> NoRepo]

InitUnlinked ==
  /\ InitProvider
  /\ hosted = NoRows
  /\ gitIntegrations = {}
  /\ sites = Insert(NoRows, 1, UnlinkedSite)
  /\ articles = NoRows
  /\ last = NoLast
  /\ running = NoRunning

NextUnlinked ==
  \/ UpsertGitIntegration("u1", "t1")
  \/ CreateSite("u1", "blog", NoFault(CreateSiteCalls), "create", NoFiles)
  \/ \E d \in ArticleInputs : d.slug = "a" /\ CreateArticle("u1", d)
  \/ \E a \in ArticleIds : PublishArticle("u1", a, NoFault(PublishCalls))
  \/ \E u \in Users, a \in ArticleIds, at \in 0 .. PublishCalls,
        resp \in FaultResponses :
       DeleteArticleFromRepo(u, a, Rs(at, resp, PublishCalls))

SpecUnlinked == InitUnlinked /\ [][NextUnlinked]_vars

(***************************************************************************)
(* Creation, renaming and deletion of the sites of one user                *)
(***************************************************************************)
NextSiteLife ==
  \/ UpsertGitIntegration("u1", "t1")
  \/ \E name \in {"blog", "news"}, at \in 0 .. 3, step \in ProvisionSteps :
       CreateSite("u1", name, Rs(at, ServerError, CreateSiteCalls), step,
                  NoFiles)
  \/ \E s \in SiteIds : UpdateSite("u1", s, [name |-> "news"])
  \/ \E u \in Users, s \in SiteIds : DeleteSite(u, s)

SpecSiteLife == Init /\ [][NextSiteLife]_vars

\* one article: created, renamed, published and deleted from the repository
NextRename ==
  \/ UpsertGitIntegration("u1", "t1")
  \/ CreateSite("u1", "blog", NoFault(CreateSiteCalls), "create", NoFiles)
  \/ \E d \in ArticleInputs :
       d.siteId = 1 /\ DOMAIN articles = {} /\ CreateArticle("u1", d)
  \/ \E a \in ArticleIds, slug \in Slugs :
       UpdateArticle("u1", a, [slug |-> slug])
  \/ \E a \in ArticleIds, at \in 0 .. PublishCalls, resp \in FaultResponses :
       PublishArticle("u1", a, Rs(at, resp, PublishCalls))
  \/ \E a \in ArticleIds, at \in 0 .. PublishCalls, resp \in FaultResponses :
       DeleteArticleFromRepo("u1", a, Rs(at, resp, PublishCalls))

SpecRename == Init /\ [][NextRename]_vars

\* the sync workflows of one user around a site whose link is changed
OtherRepo == FullName("u1", "other")

NextRelink ==
  \/ UpsertGitIntegration("u1", "t1")
  \/ CreateSite("u1", "blog", NoFault(CreateSiteCalls), "create", NoFiles)
  \/ \E gitRepo \in {NoRepo, OtherRepo} :
       UpdateSite("u1", 1, [gitRepo |-> gitRepo])
  \/ \E d \in ArticleInputs :
       d.siteId = 1 /\ d.slug = "a" /\ DOMAIN articles = {}
         /\ CreateArticle("u1", d)
  \/ UpdateArticle("u1", 1, [slug |-> "b"])
  \/ DeleteArticle("u1", 1)
  \/ \E at \in {0, 2} : PublishArticle("u1", 1, Rs(at, ServerError, PublishCalls))
  \/ \E at \in {0, 2} : ImportArticles("u1", 1, Rs(at, ServerError, ImportCalls))
  \/ \E at \in {0, 2} :
       DeleteArticleFromRepo("u1", 1, Rs(at, ServerError, PublishCalls))

SpecRelink == Init /\ [][NextRelink]_vars

\* the placeholder loop over every listed tree, each fetched file being as
\* listed or changed since
NextSubstitute ==
  \/ ProvisionBegin("u1", "blog", TRUE)
  \/ CreateRepoFromTemplate(OkResponse, NoFiles)
  \/ \E tree \in Trees : GetRepoFiles(OkResponse, tree)
  \/ SkipFile
  \/ \E r \in {OkResponse, ServerError}, sha \in {ListedSha, ChangedSha} :
       FetchFile(r, sha)
  \/ \E r \in {OkResponse, ServerError} : UpdateFile(r)
  \/ FilesDone
  \/ EnablePages(OkResponse)

SpecSubstitute == Init /\ [][NextSubstitute]_vars

(***************************************************************************)
(* Validation: the validators applied to texts, and the two routes         *)
(***************************************************************************)
Texts ==
  UNION {[1 .. n -> Chars] : n \in 0 .. MaxText}
    \cup {Rep("a", MaxNameLength), Rep("a", MaxNameLength + 1),
          <<" ">> \o Rep("a", MaxNameLength) \o <<" ">>}

\* a function applied to the text drawn in the initial state: what it returned
Apply(op, res) ==
  /\ last' = [last EXCEPT !.op = op,
                          !.status = IF res.ok THEN "ok" ELSE "failed",
                          !.error = res.error, !.info = [value |-> res.value]]
  /\ UNCHANGED <<pvars, hosted, gitIntegrations, sites, articles, running>>

InitText(targets) ==
  /\ InitProvider
  /\ hosted = NoRows
  /\ gitIntegrations = {}
  /\ sites = NoRows
  /\ articles = NoRows
  /\ running = NoRunning
  /\ \E target \in targets :
       last = [NoLast EXCEPT !.op = "text", !.target = target]

InitValidate == InitText([text : Texts])

ValidateSiteName ==
  Apply("validateSiteName", validateSiteName(last.target.text))

ValidateGitRepo == Apply("validateGitRepo", validateGitRepo(last.target.text))

NextValidate == ValidateSiteName \/ ValidateGitRepo

SpecValidate == InitValidate /\ [][NextValidate]_vars

(***************************************************************************)
(* The front matter: the excerpt of a body, and a published file read back *)
(***************************************************************************)
PlainChars == {"y", " ", "nl", ":"}

\* a body of n letters with a space at position p, if p is in it
Long(n, p) == [i \in 1 .. n |-> IF i = p THEN " " ELSE "y"]

PlainTexts ==
  UNION {[1 .. n -> PlainChars] : n \in 0 .. MaxText}
    \cup {Long(n, p) : n \in {ExcerptLength - 1, ExcerptLength,
                              ExcerptLength + 1, 200},
                      p \in {0, 50, 101, 102, 120, 121, 150, 151}}

\* titles as validateTitle returns them: trimmed and not empty
PlainTitles == {<<"y">>, <<"y", " ", "y">>, <<"y", ":", "y">>,
                <<"y", "nl", "y">>}

InitFrontMatter == InitText([title : PlainTitles, text : PlainTexts])

GenerateExcerpt ==
  Apply("generateExcerpt", Valid(generateExcerpt(last.target.text)))

\* the file of the article as publish writes it, read as import reads it
ParsePublished ==
  Apply("parseMarkdownContent",
        Valid(parseMarkdownText(
                markdownContent([title |-> last.target.title,
                                 content |-> last.target.text]),
                <<"a">>)))

NextFrontMatter == GenerateExcerpt \/ ParsePublished

SpecFrontMatter == InitFrontMatter /\ [][NextFrontMatter]_vars

PostSites(userId, body, rs, failStep, content) ==
  /\ FreeIds(sites, SiteIds) # {}
  /\ Respond("POST /sites", userId, [text |-> body.name],
             postSites(DB, hosted, userId, body, rs, failStep, content))

PostArticles(userId, body) ==
  /\ FreeIds(articles, ArticleIds) # {}
  /\ Respond("POST /articles", userId,
             [site |-> body.siteId, title |-> body.title, slug |-> body.slug],
             postArticles(DB, hosted, userId, body))

RouteNames == {<<"a">>, <<" ", "A", " ">>, <<"a", "!">>, <<" ">>}
RouteTitles == {<<"A", " ", "a">>, <<" ">>, <<"!">>}
RouteSlugs == {<<>>, <<"a">>, <<"A">>, <<" ">>}

NextRoutes ==
  \/ UpsertGitIntegration("u1", "t1")
  \/ \E name \in RouteNames, at \in 0 .. 3 :
       PostSites("u1", [name |-> name], Rs(at, ServerError, CreateSiteCalls),
                 "create", NoFiles)
  \/ \E u \in Users, s \in SiteIds, title \in RouteTitles,
        slug \in RouteSlugs :
       PostArticles(u, [siteId |-> s, title |-> title, slug |-> slug,
                        content |-> <<"y">>])

SpecRoutes == Init /\ [][NextRoutes]_vars

(***************************************************************************)
(* Requests in flight: the steps of an import interleave with the steps    *)
(* of another import and with whole requests                               *)
(***************************************************************************)
Procs == {"p1", "p2"}

\* the request of process p is answered with res and leaves
Leave(p, op, userId, target, res) ==
  /\ ~res.full
  /\ last' = [op |-> op, userId |-> userId, target |-> target,
              status |-> res.status, error |-> res.error, info |-> res.info,
              trace |-> res.trace, resolution |-> res.resolution]
  /\ gitIntegrations' = res.db.gitIntegrations
  /\ sites' = res.db.sites
  /\ articles' = res.db.articles
  /\ hosted' = res.hosted
  /\ running' = [q \in DOMAIN running \ {p} |-> running[q]]
  /\ UNCHANGED pvars

\* the local state of p becomes st, nothing is answered yet
Step(p, st, db, h) ==
  /\ running' = [q \in DOMAIN running \cup {p} |->
                   IF q = p THEN st ELSE running[q]]
  /\ gitIntegrations' = db.gitIntegrations
  /\ sites' = db.sites
  /\ articles' = db.articles
  /\ hosted' = h
  /\ UNCHANGED <<pvars, last>>

\* importArticlesFromGitHub up to the loop: the site checks, the token, the
\* repository lookup and the markdown files, which p keeps for its loop
ImportStart(p, userId, siteId) ==
  /\ p \notin DOMAIN running
  /\ LET rs == NoFault(ImportCalls)
         whole == importArticlesFromGitHub(DB, hosted, siteId, userId, rs)
     IN IF whole.status = "failed"
          THEN Leave(p, "importArticlesFromGitHub", userId, OnSite(siteId),
                     whole)
        ELSE Step(p, [op |-> "importArticlesFromGitHub", userId |-> userId,
                      siteId |-> siteId, pc |-> "check", i |-> 1,
                      articles |->
                        getMarkdownFilesFromRepo(
                          hosted, sites[siteId].gitRepo, rs[3],
                          SubSeq(rs, 4, Len(rs))).articles,
                      trace |-> whole.trace, imported |-> <<>>],
                  DB, hosted)

\* one turn of the loop up to articleRepo.findBySiteIdAndSlug, or the return
ImportCheck(p) ==
  /\ p \in DOMAIN running
  /\ running[p].op = "importArticlesFromGitHub"
  /\ running[p].pc = "check"
  /\ LET st == running[p]
     IN IF st.i > Len(st.articles)
          THEN Leave(p, st.op, st.userId, OnSite(st.siteId),
                     [Done([imported |-> Len(st.imported),
                            total |-> Len(st.articles),
                            articles |-> st.imported],
                           st.trace, DB, hosted)
                        EXCEPT !.resolution = "valid"])
        ELSE IF findBySiteIdAndSlug(DB, st.siteId, st.articles[st.i].slug)
                  # {}
          THEN Step(p, [st EXCEPT !.i = @ + 1], DB, hosted)
        ELSE Step(p, [st EXCEPT !.pc = "insert"], DB, hosted)

\* articleRepo.create of the file the check found no row for; the rejected
\* promise of a refused insert is a defect that ends the request
ImportInsert(p) ==
  /\ p \in DOMAIN running
  /\ running[p].op = "importArticlesFromGitHub"
  /\ running[p].pc = "insert"
  /\ LET st == running[p]
         file == st.articles[st.i]
         data == [siteId |-> st.siteId, title |-> file.title,
                  slug |-> file.slug, content |-> file.content,
                  status |-> file.status]
         refused == findBySiteIdAndSlug(DB, st.siteId, file.slug) # {}
         created == ArticleCreate(DB, data)
     IN /\ refused \/ FreeIds(articles, ArticleIds) # {}
        /\ IF ~created.ok
             THEN Leave(p, st.op, st.userId, OnSite(st.siteId),
                        [Failed(Defect("Unique constraint"), st.trace, DB,
                                hosted)
                           EXCEPT !.resolution = "valid"])
           ELSE Step(p, [st EXCEPT !.pc = "check", !.i = @ + 1,
                                   !.imported = Append(@, created.id)],
                     created.db, hosted)

\* the slugs an update renames an article to
SlugUpdates == [slug : Slugs]

NextRace ==
  \/ UpsertGitIntegration("u1", "t1")
  \/ \E c \in TemplateContents \ {NoFiles} :
       CreateSite("u1", "blog", NoFault(CreateSiteCalls), "create", c)
  \/ \E d \in ArticleInputs :
       d.siteId = 1 /\ d.slug = "b" /\ CreateArticle("u1", d)
  \/ \E d \in SlugUpdates : UpdateArticle("u1", 1, d)
  \/ DeleteArticle("u1", 1)
  \/ \E p \in Procs : ImportStart(p, "u1", 1)
  \/ \E p \in Procs : ImportCheck(p)
  \/ \E p \in Procs : ImportInsert(p)

SpecRace == Init /\ [][NextRace]_vars

\* the provider's answer to a token it does not accept
Unauthorized == [status |-> 401, emptyMsg |-> FALSE]

\* answers the validation call is tried with
ValidationResponses == {OkResponse, Unauthorized, ServerError}

\* getUserGitHubToken up to userRepo.getGitHubToken
ResolveRead(p, userId) ==
  /\ p \notin DOMAIN running
  /\ LET accessToken == getGitHubToken(DB, userId)
     IN IF accessToken = None
          THEN Leave(p, "getUserGitHubToken", userId, NoTarget,
                     [Failed(GitHubTokenError(
                               "No GitHub integration found for user"),
                             <<>>, DB, hosted)
                        EXCEPT !.resolution = "absent"])
        ELSE Step(p, [op |-> "getUserGitHubToken", userId |-> userId,
                      pc |-> "validate", token |-> accessToken],
                  DB, hosted)

\* gitProvider.validateGitHubToken of the token that was read, answered r
ResolveValidate(p, r) ==
  /\ p \in DOMAIN running
  /\ running[p].op = "getUserGitHubToken"
  /\ running[p].pc = "validate"
  /\ LET st == running[p]
         validation == validateGitHubToken(r)
     IN IF validation.isValid
          THEN Leave(p, st.op, st.userId, NoTarget,
                     [Done([token |-> st.token], validation.trace, DB,
                           hosted)
                        EXCEPT !.resolution = "valid"])
        ELSE Step(p, [op |-> st.op, userId |-> st.userId, pc |-> "clear",
                      token |-> st.token, reason |-> validation.reason,
                      trace |-> validation.trace],
                  DB, hosted)

\* userRepo.clearGitHubToken(userId) and the failure that follows it
ResolveClear(p) ==
  /\ p \in DOMAIN running
  /\ running[p].op = "getUserGitHubToken"
  /\ running[p].pc = "clear"
  /\ LET st == running[p]
     IN Leave(p, st.op, st.userId, NoTarget,
              [Failed(GitHubTokenError(st.reason), st.trace,
                      clearGitHubToken(DB, st.userId), hosted)
                 EXCEPT !.resolution = "invalid"])

NextTokenRace ==
  \/ \E u \in Users, t \in Tokens : UpsertGitIntegration(u, t)
  \/ \E p \in Procs, u \in Users : ResolveRead(p, u)
  \/ \E p \in Procs, r \in ValidationResponses : ResolveValidate(p, r)
  \/ \E p \in Procs : ResolveClear(p)

SpecTokenRace == Init /\ [][NextTokenRace]_vars

\* publishArticleToGitHub up to the probe of publishArticleToRepo: the
\* checks, the token, the markdown and getFileOrNull, whose sha p keeps
PublishProbe(p, userId, articleId) ==
  /\ p \notin DOMAIN running
  /\ LET rs == NoFault(PublishCalls)
         whole == publishArticleToGitHub(DB, hosted, articleId, userId, rs)
     IN IF whole.status = "failed"
          THEN Leave(p, "publishArticleToGitHub", userId,
                     OnArticle(articleId), whole)
        ELSE LET article == articles[articleId]
                 repo == sites[article.siteId].gitRepo
                 existingFile == getFileOrNull(hosted, repo, article.slug,
                                               rs[2])
             IN Step(p, [op |-> "publishArticleToGitHub",
                         userId |-> userId, article |-> articleId,
                         repo |-> repo, slug |-> article.slug,
                         markdownContent |-> Markdown(article),
                         sha |-> IF existingFile.isNull THEN NoSha
                                 ELSE existingFile.sha,
                         trace |-> <<Call("user", OkResponse),
                                     Call("getFile", existingFile.resp)>>,
                         pc |-> "put"],
                     DB, hosted)

\* the PUT that sends the sha the file has by now
PublishPutRefetched(p) ==
  /\ p \in DOMAIN running
  /\ running[p].op = "publishArticleToGitHub"
  /\ running[p].pc = "put"
  /\ LET st == running[p]
         updated == ArticleUpdate(DB, st.article, [status |-> "published"])
     IN Leave(p, st.op, st.userId, OnArticle(st.article),
              [Done([article |-> updated.db.articles[st.article],
                     published |-> TRUE, filePath |-> FilePath(st.slug),
                     wasUpdate |-> st.sha # NoSha],
                    Append(st.trace, Call("putFile", OkResponse)),
                    updated.db,
                    PutFile(hosted, st.repo, st.slug, st.markdownContent))
                 EXCEPT !.resolution = "valid"])

\* updateFileContent with the sha of the probe, then articleRepo.update
PublishPut(p) ==
  /\ p \in DOMAIN running
  /\ running[p].op = "publishArticleToGitHub"
  /\ running[p].pc = "put"
  /\ LET st == running[p]
         put == ServeWrite(hosted, st.repo, st.slug, st.sha, OkResponse)
         trace == Append(st.trace, Call("putFile", put))
         updated == ArticleUpdate(DB, st.article, [status |-> "published"])
     IN IF ~IsOk(put)
          THEN Leave(p, st.op, st.userId, OnArticle(st.article),
                     [Failed(GitProviderError(put), trace, DB, hosted)
                        EXCEPT !.resolution = "valid"])
        ELSE Leave(p, st.op, st.userId, OnArticle(st.article),
                   [Done([article |-> updated.db.articles[st.article],
                          published |-> TRUE, filePath |-> FilePath(st.slug),
                          wasUpdate |-> st.sha # NoSha],
                         trace, updated.db,
                         PutFile(hosted, st.repo, st.slug,
                                 st.markdownContent))
                      EXCEPT !.resolution = "valid"])

\* deleteArticleFromGitHub up to the probe of deleteArticleFromRepo
DeleteProbe(p, userId, articleId) ==
  /\ p \notin DOMAIN running
  /\ LET rs == NoFault(PublishCalls)
         whole == deleteArticleFromGitHub(DB, hosted, articleId, userId, rs)
     IN IF whole.status = "failed" \/ ~whole.info.deleted
          THEN Leave(p, "deleteArticleFromGitHub", userId,
                     OnArticle(articleId), whole)
        ELSE LET article == articles[articleId]
                 repo == sites[article.siteId].gitRepo
                 currentFile == getFileOrNull(hosted, repo, article.slug,
                                              rs[2])
             IN Step(p, [op |-> "deleteArticleFromGitHub",
                         userId |-> userId, article |-> articleId,
                         repo |-> repo, slug |-> article.slug,
                         sha |-> currentFile.sha,
                         trace |-> <<Call("user", OkResponse),
                                     Call("getFile", currentFile.resp)>>,
                         pc |-> "delete"],
                     DB, hosted)

\* deleteFile with the sha of the probe
DeleteApply(p) ==
  /\ p \in DOMAIN running
  /\ running[p].op = "deleteArticleFromGitHub"
  /\ running[p].pc = "delete"
  /\ LET st == running[p]
         del == ServeWrite(hosted, st.repo, st.slug, st.sha, OkResponse)
         trace == Append(st.trace, Call("deleteFile", del))
     IN IF ~IsOk(del)
          THEN Leave(p, st.op, st.userId, OnArticle(st.article),
                     [Failed(GitProviderError(del), trace, DB, hosted)
                        EXCEPT !.resolution = "valid"])
        ELSE Leave(p, st.op, st.userId, OnArticle(st.article),
                   [Done([deleted |-> TRUE, reason |-> None,
                          filePath |-> FilePath(st.slug)],
                         trace, DB, RemoveFile(hosted, st.repo, st.slug))
                      EXCEPT !.resolution = "valid"])

\* bodies an update gives an article
BodyUpdates == [content : {<<"y">>, <<" ", "y">>}]

NextPublishRace ==
  \/ UpsertGitIntegration("u1", "t1")
  \/ CreateSite("u1", "blog", NoFault(CreateSiteCalls), "create", NoFiles)
  \/ \E d \in ArticleInputs :
       d.siteId = 1 /\ d.slug = "a" /\ CreateArticle("u1", d)
  \/ \E d \in BodyUpdates : UpdateArticle("u1", 1, d)
  \/ \E p \in Procs : PublishProbe(p, "u1", 1)
  \/ \E p \in Procs : PublishPut(p)
  \/ \E p \in Procs : DeleteProbe(p, "u1", 1)
  \/ \E p \in Procs : DeleteApply(p)

SpecPublishRace == Init /\ [][NextPublishRace]_vars

(***************************************************************************)
(* Requests that resolve a token, asked by the owner and by another user   *)
(* on rows that exist and on rows that do not                              *)
(***************************************************************************)
NextGate ==
  \/ \E u \in Users : UpsertGitIntegration(u, "t1")
  \/ CreateSite("u1", "blog", NoFault(CreateSiteCalls), "create", NoFiles)
  \/ \E d \in ArticleInputs :
       d.siteId = 1 /\ d.slug = "a" /\ CreateArticle("u1", d)
  \/ \E u \in Users, a \in ArticleIds, at \in 0 .. 1 :
       PublishArticle(u, a, Rs(at, ServerError, PublishCalls))
  \/ \E u \in Users, s \in SiteIds, at \in 0 .. 1 :
       ImportArticles(u, s, Rs(at, ServerError, ImportCalls))
  \/ \E u \in Users, a \in ArticleIds, at \in 0 .. 1 :
       DeleteArticleFromRepo(u, a, Rs(at, ServerError, PublishCalls))

SpecGate == Init /\ [][NextGate]_vars

(***************************************************************************)
(* Slugs: the article routes, and the import of files that the owner       *)
(* pushed to the repository                                                *)
(***************************************************************************)
PutArticles(userId, articleId, body) ==
  Respond("PUT /articles", userId,
          [article |-> articleId, slug |-> body.slug],
          putArticles(DB, hosted, articleId, userId, body))

\* a push replaces the markdown files of the repository by content/{path}.md
PushFile(repo, path, file) ==
  /\ repo \in DOMAIN hosted
  /\ hosted' = [hosted EXCEPT ![repo] = [s \in {path} |-> file]]
  /\ UNCHANGED <<pvars, dbvars, last, running>>

\* a file without front matter
PlainFile ==
  [title |-> None, slug |-> None, status |-> None, content |-> <<"y">>]

\* paths under content/ and slug lines of the front matter
PushedPaths == {<<"a">>, <<"A">>, <<"a", "/", "a">>}
PushedSlugs == {<<"1">>, <<"a", " ", "a">>}

NextSlug ==
  \/ UpsertGitIntegration("u1", "t1")
  \/ CreateSite("u1", "blog", NoFault(CreateSiteCalls), "create", NoFiles)
  \/ \E title \in RouteTitles, slug \in RouteSlugs :
       PostArticles("u1", [siteId |-> 1, title |-> title, slug |-> slug,
                           content |-> <<"y">>])
  \/ \E a \in ArticleIds, slug \in RouteSlugs :
       PutArticles("u1", a, [slug |-> slug])
  \/ \E path \in PushedPaths : PushFile(FullName("u1", "blog"), path, PlainFile)
  \/ \E slug \in PushedSlugs :
       PushFile(FullName("u1", "blog"), <<"a">>,
                [PlainFile EXCEPT !.slug = slug])
  \/ ImportArticles("u1", 1, NoFault(ImportCalls))

SpecSlug == Init /\ [][NextSlug]_vars

(***************************************************************************)
(* Every request of the site and article services, by either user          *)
(***************************************************************************)
Next ==
  \/ \E u \in Users : UpsertGitIntegration(u, "t1")
  \/ CreateSite("u1", "blog", NoFault(CreateSiteCalls), "create", NoFiles)
  \/ \E u \in Users, s \in SiteIds : FindSite(u, s)
  \/ \E u \in Users, s \in SiteIds : UpdateSite(u, s, [name |-> "news"])
  \/ \E u \in Users, s \in SiteIds : DeleteSite(u, s)
  \/ \E u \in Users, d \in ArticleInputs : CreateArticle(u, d)
  \/ \E u \in Users, s \in SiteIds : FindSiteArticles(u, s)
  \/ \E u \in Users, a \in ArticleIds : FindArticle(u, a)
  \/ \E u \in Users, a \in ArticleIds :
       UpdateArticle(u, a, [status |-> "draft"])
  \/ \E u \in Users, a \in ArticleIds : DeleteArticle(u, a)
  \/ \E u \in Users, a \in ArticleIds :
       PublishArticle(u, a, NoFault(PublishCalls))
  \/ \E u \in Users, s \in SiteIds :
       ImportArticles(u, s, NoFault(ImportCalls))
  \/ \E u \in Users, a \in ArticleIds :
       DeleteArticleFromRepo(u, a, NoFault(PublishCalls))

Spec == Init /\ [][Next]_vars

SpecProvision == Init /\ [][NextProvision]_vars

(***************************************************************************)
(* Properties of the provider (SpecProvision)                              *)
(***************************************************************************)
IsChain == req.op = "createRepositoryWithPages"

InChain == IsChain /\ pc \notin {"idle", "done"}

\* the failure class the retry of the tree listing is documented for
ClaimedRetryable(r) == r.status = 409 \/ r.status = 422 \/ r.emptyMsg

\* C1: during placeholder substitution the tree listing is attempted at most
\* 10 times in total; a listing that succeeds at the 10th attempt, after 9
\* failures with status 409, is accepted and substitution goes on to the
\* files; a 10th consecutive 409 fails substitution, and substitution fails on
\* 409 only then; no 11th listing is issued.
C1_RetryBound ==
  /\ [](attempts <= MaxRecurs + 1)
  /\ [][(pc = "list" /\ attempts = MaxRecurs /\ lastError.status = 409
           /\ calls'["tree"] = calls["tree"] + 1
           /\ failures'["tree"] = failures["tree"])
          => (pc' = "file" /\ outcome'.status # "failed")]_vars
  /\ [][(pc = "list" /\ calls'["tree"] = calls["tree"] + 1
           /\ failures'["tree"] = failures["tree"] + 1
           /\ lastError'.status = 409)
          => IF attempts = MaxRecurs
               THEN pc' = "done" /\ outcome'.status = "failed"
                    /\ outcome'.step = "substitute"
               ELSE pc' = "list" /\ outcome'.status # "failed"]_vars

\* the 10th listing succeeded after nine 409s and every file was processed
C1_Witness ==
  /\ IsChain
  /\ attempts = MaxRecurs + 1
  /\ failures["tree"] = MaxRecurs
  /\ lastError.status = 409
  /\ pc = "pages"

\* a call that fails the single-purpose operation: every failed call but the
\* 404 of the existence probe, which getFileOrNull turns into null
FailsOperation(call) ==
  call.status # 200 /\ ~(call.kind = "getFile" /\ call.status = 404)

\* C2: a provider operation goes on after a failed hosting call only when
\* that call is the tree listing of placeholder substitution and its failure
\* had status 409 or 422 or the message 'Git Repository is empty', and what it
\* issues next is that listing again; the creation and the pages call are
\* issued at most once, a file call at most once per file; every other failed
\* call (a listing failing
\* otherwise, create-from-template, file get / put / delete, pages, token
\* validation) ends the operation in failure at once, having been issued once.
C2_OnlyTreeListingRetried ==
  /\ [][\A k \in CallKinds :
          (InChain /\ failures'[k] = failures[k] + 1 /\ pc' # "done")
            => k = "tree" /\ ClaimedRetryable(lastError') /\ pc' = "list"]_vars
  /\ [][\A k \in CallKinds :
          (pc = "list" /\ calls'[k] = calls[k] + 1) => k = "tree"]_vars
  /\ [](IsChain
          => /\ calls["generate"] <= 1
             /\ calls["pages"] <= 1
             /\ calls["getFile"] <= Len(files)
             /\ calls["putFile"] <= calls["getFile"]
             /\ \A k \in CallKinds \ {"tree"} : failures[k] <= 1)
  /\ [][\A k \in CallKinds :
          (InChain /\ failures'[k] = failures[k] + 1
             /\ ~(k = "tree" /\ ClaimedRetryable(lastError')))
            => pc' = "done" /\ outcome'.status = "failed"]_vars
  /\ []((pc = "done" /\ ~IsChain)
          => /\ \A k \in CallKinds : calls[k] <= 1
             /\ \A i \in 1 .. Len(outcome.trace) :
                  FailsOperation(outcome.trace[i])
                    => i = Len(outcome.trace) /\ outcome.status = "failed")

\* a listing failed with 500 and the operation ended after that one listing
C2_Witness ==
  /\ IsChain
  /\ pc = "done"
  /\ outcome.status = "failed"
  /\ calls["tree"] = 1
  /\ failures["tree"] = 1
  /\ lastError.status = 500
  /\ ~lastError.emptyMsg

\* C9: provisioning runs create-from-template, then placeholder substitution,
\* then pages enablement: a listing, file call or pages call is issued only
\* after the creation succeeded, a file call only after a listing succeeded,
\* the pages call only after substitution ran to its end without a failed file
\* call; after a failed creation no later call is made and after a failed
\* substitution no pages call.
C9_StepsInOrder ==
  IsChain =>
    /\ (calls["tree"] + calls["getFile"] + calls["putFile"] + calls["pages"] > 0
          => calls["generate"] = 1 /\ failures["generate"] = 0)
    /\ (calls["getFile"] + calls["putFile"] > 0
          => failures["tree"] < calls["tree"])
    /\ ((calls["pages"] > 0 /\ req.templateData)
          => /\ failures["tree"] < calls["tree"]
             /\ fileIdx > Len(files)
             /\ failures["getFile"] = 0
             /\ failures["putFile"] = 0)
    /\ ((outcome.status = "failed" /\ outcome.step = "create")
          => calls["tree"] + calls["getFile"] + calls["putFile"]
               + calls["pages"] = 0)
    /\ ((outcome.status = "failed" /\ outcome.step = "substitute")
          => calls["pages"] = 0)

\* a file write failed during substitution and provisioning ended there
C9_Witness ==
  /\ IsChain
  /\ pc = "done"
  /\ outcome.status = "failed"
  /\ outcome.step = "substitute"
  /\ failures["putFile"] = 1
  /\ calls["generate"] = 1
  /\ calls["pages"] = 0

\* C10: when creation and substitution succeeded and enabling pages failed,
\* provisioning fails with a PagesDeploymentError, which is none of the
\* errors a failed creation or substitution is reported with.
C10_PagesFailureDistinct ==
  (IsChain /\ outcome.status = "failed" /\ outcome.step = "pages")
    => /\ outcome.error.kind = "PagesDeploymentError"
       /\ \A r \in ErrorResponses : outcome.error # ProvisionFailure(req, r)

(***************************************************************************)
(* Properties of token resolution (SpecToken)                              *)
(***************************************************************************)
\* the access tokens git_integrations holds for a user on GitHub
StoredTokens(rows, u) ==
  {g.accessToken : g \in {x \in rows : x.userId = u /\ x.platform = "github"}}

HasStoredToken(rows, u) == StoredTokens(rows, u) \ {""} # {}

\* requests that resolve the access token of their user
TokenOps ==
  {"getUserGitHubToken", "createSite", "publishArticleToGitHub",
   "importArticlesFromGitHub", "deleteArticleFromGitHub"}

\* C3: a token resolution ends in one of three ways.  (a) No token is stored
\* for the user: it fails with 'No GitHub integration found for user', no
\* validation call is made and git_integrations is unchanged.  (b) The stored
\* token fails validation: the user's stored token becomes the empty string,
\* the other rows are unchanged, and it fails with the validation reason.
\* (c) The stored token validates: it is returned and git_integrations is
\* unchanged.
C3_ThreeOutcomes ==
  [][last'.op = "getUserGitHubToken" =>
       LET u == last'.userId
           stored == HasStoredToken(gitIntegrations, u)
       IN \/ /\ ~stored
             /\ last'.resolution = "absent"
             /\ last'.status = "failed"
             /\ last'.error =
                  GitHubTokenError("No GitHub integration found for user")
             /\ last'.trace = <<>>
             /\ gitIntegrations' = gitIntegrations
          \/ /\ stored
             /\ last'.resolution = "invalid"
             /\ last'.status = "failed"
             /\ last'.error = GitHubTokenError("GitHub token validation failed")
             /\ Len(last'.trace) = 1
             /\ last'.trace[1].kind = "user"
             /\ last'.trace[1].status # 200
             /\ StoredTokens(gitIntegrations', u) = {""}
             /\ \A v \in Users \ {u} :
                  StoredTokens(gitIntegrations', v)
                    = StoredTokens(gitIntegrations, v)
          \/ /\ stored
             /\ last'.resolution = "valid"
             /\ last'.status = "ok"
             /\ last'.trace = <<[kind |-> "user", status |-> 200]>>
             /\ StoredTokens(gitIntegrations, u) = {last'.info.token}
             /\ gitIntegrations' = gitIntegrations]_vars

\* a resolution whose validation failed has cleared the stored token
C3_Witness ==
  /\ last.op = "getUserGitHubToken"
  /\ last.resolution = "invalid"
  /\ StoredTokens(gitIntegrations, last.userId) = {""}

\* C4: a resolution whose validation failed leaves the user without a stored
\* token; while a user has no stored token, every request of that user that
\* resolves a token (token resolution, createSite, publish, import,
\* delete-from-repo) fails, and no request other than that user's
\* upsertGitIntegration gives the user a stored token.
C4_ReauthenticationOnly ==
  /\ [][last'.resolution = "invalid"
          => ~HasStoredToken(gitIntegrations', last'.userId)]_vars
  /\ [][\A u \in Users :
          (~HasStoredToken(gitIntegrations, u)
             /\ ~(last'.op = "upsertGitIntegration" /\ last'.userId = u))
            => /\ ~HasStoredToken(gitIntegrations', u)
               /\ (last'.userId = u /\ last'.op \in TokenOps)
                    => last'.status = "failed"]_vars

\* a publication was refused after a failed validation had cleared the token
C4_Witness ==
  /\ last.op = "publishArticleToGitHub"
  /\ last.status = "failed"
  /\ last.resolution = "absent"
  /\ StoredTokens(gitIntegrations, last.userId) = {""}

(***************************************************************************)
(* Properties of publication (SpecPublish)                                 *)
(***************************************************************************)
LastCall(trace) == trace[Len(trace)]

PutSucceeded(trace) ==
  /\ trace # <<>>
  /\ LastCall(trace) = [kind |-> "putFile", status |-> 200]

\* C5: a publication changes the articles table only after the PUT of the
\* file has succeeded, and then only the status of the published article; a
\* publication that fails, at the ownership check, the linked-repository
\* check, the token resolution, the existence probe or the PUT, leaves every
\* Article row as it was.
C5_StatusAfterPut ==
  [][last'.op = "publishArticleToGitHub" =>
       LET a == last'.target.article
       IN /\ last'.status = "failed" => articles' = articles
          /\ last'.status = "ok" =>
               /\ PutSucceeded(last'.trace)
               /\ articles' = [articles EXCEPT ![a].status = "published"]
          /\ ~PutSucceeded(last'.trace) =>
               /\ last'.status = "failed"
               /\ articles' = articles]_vars

\* the PUT was refused and the article is still a draft
C5_Witness ==
  /\ last.op = "publishArticleToGitHub"
  /\ last.status = "failed"
  /\ last.trace # <<>>
  /\ LastCall(last.trace) = [kind |-> "putFile", status |-> 500]
  /\ articles[last.target.article].status = "draft"

\* the repository and slug a publication of article a writes to
RepoOf(a) == sites[articles[a].siteId].gitRepo

\* C6: a publication that succeeds reports wasUpdate exactly when the file
\* content/{slug}.md was there before it, reports that path, leaves the
\* repository with that one file more if it was not there and with the same
\* files if it was, and leaves the article 'published'; so the second of two
\* successive publications of an article reports wasUpdate = true and the
\* path the first reported, and the first reports wasUpdate = false when the
\* article had no file.
C6_PublishTwice ==
  /\ [][(last'.op = "publishArticleToGitHub" /\ last'.status = "ok") =>
          LET a == last'.target.article
              repo == RepoOf(a)
              slug == articles[a].slug
          IN /\ last'.info.wasUpdate = HasFile(hosted, repo, slug)
             /\ last'.info.filePath = FilePath(slug)
             /\ DOMAIN hosted'[repo] = DOMAIN hosted[repo] \cup {slug}
             /\ articles'[a].status = "published"]_vars
  /\ [][(/\ last.op = "publishArticleToGitHub"
         /\ last.status = "ok"
         /\ last'.op = "publishArticleToGitHub"
         /\ last'.status = "ok"
         /\ last'.target = last.target)
          => /\ last'.info.wasUpdate
             /\ last'.info.filePath = last.info.filePath
             /\ DOMAIN hosted'[RepoOf(last'.target.article)]
                  = DOMAIN hosted[RepoOf(last'.target.article)]
             /\ articles'[last'.target.article].status = "published"]_vars

\* an article published for the first time and then published again
C6_Witness ==
  /\ last.op = "publishArticleToGitHub"
  /\ last.status = "ok"
  /\ last.info.wasUpdate
  /\ last.info.filePath = FilePath(articles[last.target.article].slug)
  /\ articles[last.target.article].status = "published"

(***************************************************************************)
(* Properties of import (SpecImport)                                       *)
(***************************************************************************)
\* the slugs the markdown files of a repository parse to
ParsedSlugs(h, repo) ==
  {parseMarkdownContent(h[repo][f], f).slug : f \in DOMAIN h[repo]}

SlugsOf(rows, siteId) ==
  {rows[id].slug : id \in {i \in DOMAIN rows : rows[i].siteId = siteId}}

RowsOf(rows, siteId) == {i \in DOMAIN rows : rows[i].siteId = siteId}

\* C7: an import that succeeds leaves every Article row that existed as it
\* was, counts every markdown file of content/ in total, counts in imported
\* only the files whose slug was not an Article of the site, so that
\* imported <= total, and the site's Article rows grow by exactly imported.
C7_ImportSkipsExisting ==
  [][(last'.op = "importArticlesFromGitHub" /\ last'.status = "ok") =>
       LET s == last'.target.site
           repo == sites[s].gitRepo
       IN /\ \A id \in DOMAIN articles :
               id \in DOMAIN articles' /\ articles'[id] = articles[id]
          /\ last'.info.total = Cardinality(DOMAIN hosted[repo])
          /\ last'.info.imported
               = Cardinality(ParsedSlugs(hosted, repo) \ SlugsOf(articles, s))
          /\ last'.info.imported <= last'.info.total
          /\ Cardinality(RowsOf(articles', s))
               = Cardinality(RowsOf(articles, s)) + last'.info.imported]_vars

\* an import passed over a file whose slug was an Article already: the row
\* differs from what the file parses to
C7_Witness ==
  /\ last.op = "importArticlesFromGitHub"
  /\ last.status = "ok"
  /\ last.info.total = 2
  /\ last.info.imported = 0
  /\ \E id \in DOMAIN articles :
       /\ articles[id].siteId = last.target.site
       /\ articles[id].title = "T"
       /\ articles[id].slug \in ParsedSlugs(hosted, sites[last.target.site].gitRepo)

(***************************************************************************)
(* Properties of the ownership gate (Spec)                                 *)
(***************************************************************************)
SiteRequests ==
  {"findSiteById", "updateSite", "deleteSite", "createArticle",
   "findSiteArticles", "importArticlesFromGitHub"}

ArticleRequests ==
  {"findArticleById", "updateArticle", "deleteArticle",
   "publishArticleToGitHub", "deleteArticleFromGitHub"}

AccessErrors ==
  {"SiteAccessDeniedError", "SiteAccessError", "ArticleAccessDeniedError"}

\* the request answered in this step is on a site, or on an article of a
\* site, that exists and belongs to another user than the one asking
OnForeignSite(rq) ==
  \/ /\ rq.op \in SiteRequests
     /\ rq.target.site \in DOMAIN sites
     /\ sites[rq.target.site].userId # rq.userId
  \/ /\ rq.op \in ArticleRequests
     /\ rq.target.article \in DOMAIN articles
     /\ sites[articles[rq.target.article].siteId].userId # rq.userId

\* C8: a request (find, update or delete site; create, list, find, update or
\* delete article; publish, import, delete-from-repo) on a site of another
\* user, or on an article of such a site, fails with an access error and
\* changes neither the database nor the hosted repositories.
C8_OwnershipGate ==
  [][OnForeignSite(last') =>
       /\ last'.status = "failed"
       /\ last'.error.kind \in AccessErrors
       /\ last'.trace = <<>>
       /\ UNCHANGED <<gitIntegrations, sites, articles, hosted>>]_vars

\* a user holding a valid token asked to publish another user's article
C8_Witness ==
  /\ last.op = "publishArticleToGitHub"
  /\ last.status = "failed"
  /\ last.error.kind = "ArticleAccessDeniedError"
  /\ HasStoredToken(gitIntegrations, last.userId)
  /\ last.target.article \in DOMAIN articles
  /\ sites[articles[last.target.article].siteId].userId # last.userId
  /\ sites[articles[last.target.article].siteId].gitRepo \in DOMAIN hosted


(***************************************************************************)
(* Properties of site creation (SpecToken)                                 *)
(***************************************************************************)
\* the hosting calls of createSite that come before siteRepo.create: token
\* validation, user fetch, generate from template, tree listing, pages
ProvisionPrefix == <<"user", "user", "generate", "tree", "pages">>

SucceededPrefix(trace) ==
  /\ Len(trace) >= Len(ProvisionPrefix)
  /\ \A k \in 1 .. Len(ProvisionPrefix) :
       trace[k] = [kind |-> ProvisionPrefix[k], status |-> 200]

\* C11: createSite adds a Site row only when token validation, the user
\* fetch and the three provisioning steps (pages included) have all
\* succeeded, and the row then names the created repository; when any of
\* them fails the sites table is unchanged, whether or not the hosted
\* repository was created.
C11_SiteRowAfterProvisioning ==
  [][last'.op = "createSite" =>
       /\ sites' # sites => SucceededPrefix(last'.trace)
       /\ ~SucceededPrefix(last'.trace)
            => last'.status = "failed" /\ sites' = sites
       /\ sites' # sites =>
            \E id \in SiteIds \ DOMAIN sites :
              /\ sites' = Insert(sites, id, sites'[id])
              /\ sites'[id].userId = last'.userId
              /\ sites'[id].gitRepo \in DOMAIN hosted']_vars

\* pages enablement failed: the repository exists, no Site row does
C11_Witness ==
  /\ last.op = "createSite"
  /\ last.status = "failed"
  /\ Len(last.trace) = 5
  /\ last.trace[5].kind = "pages"
  /\ last.trace[5].status # 200
  /\ DOMAIN hosted # {}
  /\ DOMAIN sites = {}

\* C12: in createSite the import runs after the Site row is saved and its
\* failure never fails the creation: a createSite that saved its Site row
\* answers with the created site, and the row remains.
C12_ImportNeverFailsCreation ==
  [][(last'.op = "createSite" /\ sites' # sites)
       => /\ last'.status = "ok"
          /\ last'.info.site \in DOMAIN sites']_vars

(***************************************************************************)
(* Properties of the import (SpecImport)                                   *)
(***************************************************************************)
\* C13: a file of the import that fails (its fetch, or the saving of its
\* Article) is skipped and the batch goes on: an import whose token
\* validation, repository lookup and tree listing succeeded answers with
\* counts, never with an error, whatever the provider answers for each file.
C13_FileFailureSkipped ==
  [][(/\ last'.op = "importArticlesFromGitHub"
      /\ Len(last'.trace) >= 3
      /\ \A k \in 1 .. 3 : last'.trace[k].status = 200)
       => /\ last'.status = "ok"
          /\ last'.info.imported <= last'.info.total]_vars

(***************************************************************************)
(* Properties of removal from the repository (SpecPublish)                 *)
(***************************************************************************)
IssuedDelete(trace) == \E k \in 1 .. Len(trace) : trace[k].kind = "deleteFile"

\* C14: delete-from-repo of an article that was never published (still a
\* draft) by its owner, who has a stored token, succeeds with deleted = false
\* and reason 'File not found', issues no DELETE and leaves the repository as
\* it was; whenever it succeeds it reports deleted = true with the path
\* content/{slug}.md exactly when the file was there, and the file is then
\* gone; so a delete-from-repo that follows a successful one on the same
\* article reports deleted = false.
C14_DeleteThenPublish ==
  /\ [][(/\ last'.op = "deleteArticleFromGitHub"
         /\ last'.target.article \in DOMAIN articles
         /\ articles[last'.target.article].status = "draft"
         /\ HasStoredToken(gitIntegrations, last'.userId))
          => /\ last'.status = "ok"
             /\ ~last'.info.deleted
             /\ last'.info.reason = "File not found"
             /\ ~IssuedDelete(last'.trace)
             /\ hosted' = hosted]_vars
  /\ [][(last'.op = "deleteArticleFromGitHub" /\ last'.status = "ok") =>
          LET a == last'.target.article
              repo == RepoOf(a)
              slug == articles[a].slug
          IN /\ last'.info.deleted = HasFile(hosted, repo, slug)
             /\ last'.info.deleted = IssuedDelete(last'.trace)
             /\ last'.info.deleted => last'.info.filePath = FilePath(slug)
             /\ ~last'.info.deleted => last'.info.reason = "File not found"
             /\ ~HasFile(hosted', repo, slug)]_vars
  /\ [][(/\ last.op = "deleteArticleFromGitHub"
         /\ last.status = "ok"
         /\ last'.op = "deleteArticleFromGitHub"
         /\ last'.status = "ok"
         /\ last'.target = last.target)
          => ~last'.info.deleted]_vars

\* a published article's file was removed from the repository
C14_Witness ==
  /\ last.op = "deleteArticleFromGitHub"
  /\ last.status = "ok"
  /\ last.info.deleted
  /\ last.info.filePath = FilePath(articles[last.target.article].slug)
  /\ articles[last.target.article].status = "published"
  /\ ~HasFile(hosted, RepoOf(last.target.article),
              articles[last.target.article].slug)

(***************************************************************************)
(* Properties of article deletion (SpecDelete)                             *)
(***************************************************************************)
\* C15: deleteArticle by the owner of the article succeeds and removes the
\* Article row whatever becomes of the hosted file: removed, absent, or not
\* removed because the token resolution or a hosting call failed.
C15_DeleteSucceedsWhateverTheHost ==
  [][(/\ last'.op = "deleteArticle"
      /\ last'.target.article \in DOMAIN articles
      /\ sites[articles[last'.target.article].siteId].userId = last'.userId)
       => /\ last'.status = "ok"
          /\ last'.target.article \notin DOMAIN articles']_vars

(***************************************************************************)
(* Properties of a site without a linked repository (SpecUnlinked)         *)
(***************************************************************************)
\* C16: delete-from-repo by the owner of an article whose site has no linked
\* repository succeeds with deleted = false and a reason; it resolves no
\* token (git_integrations is untouched, whatever token is stored), issues
\* no hosting call, and changes no row and no hosted file.
C16_UnlinkedSiteNoError ==
  [][(/\ last'.op = "deleteArticleFromGitHub"
      /\ last'.target.article \in DOMAIN articles
      /\ sites[articles[last'.target.article].siteId].userId = last'.userId
      /\ sites[articles[last'.target.article].siteId].gitRepo = NoRepo)
       => /\ last'.status = "ok"
          /\ ~last'.info.deleted
          /\ last'.info.reason = "Site does not have a linked Git repository"
          /\ last'.trace = <<>>
          /\ last'.resolution = None
          /\ gitIntegrations' = gitIntegrations
          /\ hosted' = hosted
          /\ articles' = articles]_vars

\* answered for a user who has no stored token at all
C16_Witness ==
  /\ last.op = "deleteArticleFromGitHub"
  /\ last.status = "ok"
  /\ ~last.info.deleted
  /\ last.info.reason = "Site does not have a linked Git repository"
  /\ sites[articles[last.target.article].siteId].gitRepo = NoRepo
  /\ ~HasStoredToken(gitIntegrations, last.userId)

(***************************************************************************)
(* Properties of the error taxonomy (Spec)                                 *)
(***************************************************************************)
SiteNames == RepoNames \cup {"news"}

OwnsSite(u, id) == id \in DOMAIN sites /\ sites[id].userId = u

ClassifiedAs(res, kind, db) ==
  /\ res.status = "failed"
  /\ res.error.kind = kind
  /\ res.db = db

\* C17: in every state, a createArticle or updateArticle of the site's owner
\* that would give the site two Articles with one slug fails with
\* DuplicateSlugError, and an updateSite or createSite that would give a
\* user two Sites with one name fails with DuplicateSiteNameError; the
\* tables are left as they were.
C17_DuplicateIsClassified ==
  /\ \A u \in Users, d \in ArticleInputs :
       (OwnsSite(u, d.siteId) /\ findBySiteIdAndSlug(DB, d.siteId, d.slug) # {})
         => ClassifiedAs(createArticle(DB, hosted, u, d),
                         "DuplicateSlugError", DB)
  /\ \A u \in Users, a \in DOMAIN articles, slug \in Slugs :
       (/\ OwnsSite(u, articles[a].siteId)
        /\ findBySiteIdAndSlug(DB, articles[a].siteId, slug) \ {a} # {})
         => ClassifiedAs(updateArticle(DB, hosted, a, u, [slug |-> slug]),
                         "DuplicateSlugError", DB)
  /\ \A u \in Users, id \in DOMAIN sites, name \in SiteNames :
       (/\ OwnsSite(u, id)
        /\ \E j \in DOMAIN sites \ {id} : OwnsSite(u, j) /\ sites[j].name = name)
         => ClassifiedAs(updateSite(DB, hosted, id, u, [name |-> name]),
                         "DuplicateSiteNameError", DB)
  /\ \A u \in Users, name \in SiteNames :
       (/\ \E j \in DOMAIN sites : OwnsSite(u, j) /\ sites[j].name = name
        /\ HasStoredToken(gitIntegrations, u)
        /\ FullName(u, name) \notin DOMAIN hosted)
         => ClassifiedAs(createSite(DB, hosted, [userId |-> u, name |-> name],
                                    NoFault(CreateSiteCalls), "create",
                                    NoFiles),
                         "DuplicateSiteNameError", DB)

NotFoundKinds == {"SiteNotFoundError", "ArticleNotFoundError"}

AccessDeniedKinds ==
  {"SiteAccessDeniedError", "ArticleAccessDeniedError", "SiteAccessError"}

\* the responses of every ownership-checking request of user u on site s,
\* and on article a
SiteAnswers(u, s) ==
  {findSiteById(DB, hosted, s, u),
   updateSite(DB, hosted, s, u, [name |-> "news"]),
   deleteSite(DB, hosted, s, u),
   findSiteArticles(DB, hosted, s, u),
   importArticlesFromGitHub(DB, hosted, s, u, NoFault(ImportCalls))}
    \cup {createArticle(DB, hosted, u, d) : d \in {x \in ArticleInputs : x.siteId = s}}

ArticleAnswers(u, a) ==
  {findArticleById(DB, hosted, a, u),
   updateArticle(DB, hosted, a, u, [status |-> "draft"]),
   deleteArticle(DB, hosted, a, u),
   publishArticleToGitHub(DB, hosted, a, u, NoFault(PublishCalls)),
   deleteArticleFromGitHub(DB, hosted, a, u, NoFault(PublishCalls))}

\* C18: in every state, every request that checks ownership answers NotFound
\* for a row that does not exist and AccessDenied for a row that belongs to
\* another user, createArticle, list-site-articles and import included.
C18_AbsentAndForeignDiffer ==
  \A u \in Users :
    /\ \A s \in SiteIds : \A res \in SiteAnswers(u, s) :
         /\ s \notin DOMAIN sites
              => res.status = "failed" /\ res.error.kind \in NotFoundKinds
         /\ (s \in DOMAIN sites /\ sites[s].userId # u)
              => res.status = "failed" /\ res.error.kind \in AccessDeniedKinds
    /\ \A a \in ArticleIds : \A res \in ArticleAnswers(u, a) :
         /\ a \notin DOMAIN articles
              => res.status = "failed" /\ res.error.kind \in NotFoundKinds
         /\ (a \in DOMAIN articles /\ sites[articles[a].siteId].userId # u)
              => res.status = "failed" /\ res.error.kind \in AccessDeniedKinds

(***************************************************************************)
(* Properties of token failures (SpecToken)                                *)
(***************************************************************************)
WriteCalls == {"generate", "putFile", "deleteFile", "pages"}

\* C19: a createSite, publish, import or delete-from-repo in which the
\* resolution of the user's token fails (no stored token, or the stored
\* token does not validate) fails with the token error, has issued no
\* repository-creation or file-write call, and leaves sites, articles and
\* the hosted repositories as they were.
C19_TokenFailureBeforeAnyWrite ==
  [][(/\ last'.op \in TokenOps \ {"getUserGitHubToken"}
      /\ last'.resolution \in {"absent", "invalid"})
       => /\ last'.status = "failed"
          /\ last'.error.kind = "GitHubTokenError"
          /\ \A k \in 1 .. Len(last'.trace) :
               last'.trace[k].kind \notin WriteCalls
          /\ sites' = sites
          /\ articles' = articles
          /\ hosted' = hosted]_vars

(***************************************************************************)
(* Properties of placeholder substitution (SpecProvision)                  *)
(***************************************************************************)
TotalCalls(f) ==
  f.repoInfo + f.tree + f.generate + f.getFile + f.putFile + f.deleteFile
    + f.pages + f.user

\* the files among the first n of the listing that are fetched, and those
\* of them that are written back
Fetched(n) == {k \in 1 .. n : k <= Len(files) /\ shouldProcessFile(files[k])}

WrittenBack(n) == {k \in Fetched(n) : hasChanges(files[k])}

\* C20: placeholder substitution handles the files one after another.  Every
\* step of provisioning issues at most one hosting call, which is answered
\* within the step; when the loop stands at file k, every text file before k
\* has been fetched once and every one of them that held a placeholder has
\* been written back, and no later file has been touched; while the
\* write-back of file k is awaited, k is the last file fetched; and the
\* loop moves from file k to k+1 only by passing over k, by a fetch that
\* found nothing to replace, or by the answer to k's write-back.
C20_FilesOneAfterAnother ==
  /\ [][IsChain => TotalCalls(calls') <= TotalCalls(calls) + 1]_vars
  /\ []((IsChain /\ pc = "file")
          => /\ calls.getFile = Cardinality(Fetched(fileIdx - 1))
             /\ calls.putFile = Cardinality(WrittenBack(fileIdx - 1)))
  /\ []((IsChain /\ pc = "put")
          => /\ hasChanges(files[fileIdx])
             /\ calls.getFile = Cardinality(Fetched(fileIdx))
             /\ calls.putFile = Cardinality(WrittenBack(fileIdx - 1)))
  /\ [][(IsChain /\ pc \in {"file", "put"} /\ fileIdx' # fileIdx)
          => /\ fileIdx' = fileIdx + 1
             /\ pc' = "file"
             /\ \/ /\ pc = "file"
                   /\ ~shouldProcessFile(files[fileIdx])
                   /\ calls' = calls
                \/ /\ pc = "file"
                   /\ ~hasChanges(files[fileIdx])
                   /\ calls' = Bump(calls, "getFile")
                   /\ failures' = failures
                \/ /\ pc = "put"
                   /\ calls' = Bump(calls, "putFile")
                   /\ failures' = failures]_vars

\* the second file is being written back after the first one was
C20_Witness ==
  /\ IsChain
  /\ pc = "put"
  /\ fileIdx = 2
  /\ calls.getFile = 2
  /\ calls.putFile = 1

(***************************************************************************)
(* Properties of the hosted repositories (SpecSiteLife)                    *)
(***************************************************************************)
GenerateSucceeded(trace) ==
  \E k \in 1 .. Len(trace) : trace[k] = [kind |-> "generate", status |-> 200]

\* C21: no request removes a hosted repository.  A repository that exists
\* exists after every later request with the files it had; a createSite
\* whose generate call succeeded leaves its repository in place whether a
\* later step failed or the Site row could not be saved; deleteSite removes
\* the Site row, issues no hosting call and leaves every repository.
C21_RepositoryNeverDeleted ==
  /\ [][\A repo \in DOMAIN hosted :
          repo \in DOMAIN hosted' /\ hosted'[repo] = hosted[repo]]_vars
  /\ [][(last'.op = "createSite" /\ GenerateSucceeded(last'.trace))
          => DOMAIN hosted' # DOMAIN hosted]_vars
  /\ [][last'.op = "deleteSite"
          => /\ last'.trace = <<>>
             /\ hosted' = hosted
             /\ last'.status = "ok"
                  => last'.target.site \notin DOMAIN sites']_vars

\* the only site was deleted and its repository is still hosted
C21_Witness ==
  /\ last.op = "deleteSite"
  /\ last.status = "ok"
  /\ DOMAIN sites = {}
  /\ DOMAIN hosted # {}

(***************************************************************************)
(* Properties of the validators (SpecValidate)                             *)
(***************************************************************************)
\* a text made of letters, digits, '-', '_' and '.' only, and not empty
IsNameText(t) ==
  /\ Len(t) > 0
  /\ \A i \in 1 .. Len(t) : t[i] \in {"a", "A", "1", "-", "_", "."}

\* C24: validateSiteName returns the trimmed name exactly when the trimmed
\* name is not empty, has at most 100 characters and consists of letters,
\* digits, '-', '_' and '.', and fails otherwise; validateGitRepo returns the
\* trimmed value exactly when it has the form owner/repo over the same
\* characters, and fails otherwise.
C24_ValidatorsAcceptExactly ==
  LET t == Trim(last.target.text)
      owners == {k \in 1 .. Len(t) :
                   /\ t[k] = "/"
                   /\ IsNameText(SubSeq(t, 1, k - 1))
                   /\ IsNameText(SubSeq(t, k + 1, Len(t)))}
  IN /\ last.op = "validateSiteName" =>
          IF IsNameText(t) /\ Len(t) <= 100
            THEN last.status = "ok" /\ last.info.value = t
          ELSE last.status = "failed"
                 /\ last.error.kind = "SiteValidationError"
     /\ last.op = "validateGitRepo" =>
          IF owners # {}
            THEN last.status = "ok" /\ last.info.value = t
          ELSE last.status = "failed"
                 /\ last.error.kind = "SiteValidationError"

\* a padded name of exactly 100 characters is returned without the padding
C24_Witness ==
  /\ last.op = "validateSiteName"
  /\ last.status = "ok"
  /\ Len(last.target.text) = 102
  /\ Len(last.info.value) = 100

(***************************************************************************)
(* Properties of the routes (SpecRoutes)                                   *)
(***************************************************************************)
\* the title or the slug of the request body fails its validation
RejectedBody(target) ==
  \/ ~validateTitle(target.title).ok
  \/ target.slug # <<>> /\ ~validateSlug(target.slug).ok
  \/ target.slug = <<>>
       /\ ~generateSlugFromTitle(validateTitle(target.title).value).ok

\* C22: a request whose site name, article title or article slug fails the
\* local validation is rejected before any remote call: no token validation,
\* no hosting call and no write to the tables happens for it.
C22_ValidationBeforeRemoteCalls ==
  [][(\/ last'.op = "POST /sites" /\ ~validateSiteName(last'.target.text).ok
      \/ last'.op = "POST /articles" /\ RejectedBody(last'.target))
     => /\ last'.status = "failed"
        /\ last'.error.kind \in {"SiteValidationError",
                                  "ArticleValidationError"}
        /\ last'.trace = <<>>
        /\ last'.resolution = None
        /\ hosted' = hosted
        /\ gitIntegrations' = gitIntegrations
        /\ sites' = sites
        /\ articles' = articles]_vars

\* a bad name is refused although the token of the user is stored and a
\* good name would have reached the host
C22_Witness ==
  /\ last.op = "POST /sites"
  /\ last.error.kind = "SiteValidationError"
  /\ last.trace = <<>>
  /\ gitIntegrations # {}
  /\ DOMAIN sites # {}

(***************************************************************************)
(* Properties of a renamed article (SpecRename)                            *)
(***************************************************************************)
\* the slugs that have a file in the repository of article a
HostedSlugs(h, a) == IF RepoOf(a) \in DOMAIN h THEN DOMAIN h[RepoOf(a)] ELSE {}

\* C23: renaming the slug leaves the hosted file of the old slug where it
\* is; a publish after the rename creates the file of the new slug
\* (wasUpdate = false) beside the old one; a delete-from-repo then removes
\* the file of the current slug only, and the old file stays.
C23_RenameOrphansOldFile ==
  /\ [][last'.op = "updateArticle" => hosted' = hosted]_vars
  /\ [][(last'.op = "publishArticleToGitHub" /\ last'.status = "ok") =>
          LET a == last'.target.article
              slug == articles[a].slug
          IN /\ HostedSlugs(hosted', a) = HostedSlugs(hosted, a) \cup {slug}
             /\ last'.info.wasUpdate = (slug \in HostedSlugs(hosted, a))
             /\ last'.info.filePath = FilePath(slug)
             /\ \A s \in HostedSlugs(hosted, a) \ {slug} :
                  hosted'[RepoOf(a)][s] = hosted[RepoOf(a)][s]]_vars
  /\ [][(last'.op = "deleteArticleFromGitHub" /\ last'.status = "ok") =>
          LET a == last'.target.article
              slug == articles[a].slug
          IN IF last'.info.deleted
               THEN /\ slug \in HostedSlugs(hosted, a)
                    /\ last'.info.filePath = FilePath(slug)
                    /\ HostedSlugs(hosted', a) = HostedSlugs(hosted, a) \ {slug}
                    /\ \A s \in HostedSlugs(hosted', a) :
                         hosted'[RepoOf(a)][s] = hosted[RepoOf(a)][s]
             ELSE hosted' = hosted]_vars

\* the only article was published as a, renamed to b and published again,
\* and its file was then deleted: a.md is still there and belongs to nobody
C23_Witness ==
  /\ last.op = "deleteArticleFromGitHub"
  /\ last.status = "ok"
  /\ last.info.deleted
  /\ last.info.filePath = FilePath("b")
  /\ \A a \in DOMAIN articles : articles[a].slug = "b"
  /\ HostedSlugs(hosted, last.target.article) = {"a"}

\* both files are there after the second publish, which was a create
C23_WitnessBoth ==
  /\ last.op = "publishArticleToGitHub"
  /\ last.status = "ok"
  /\ ~last.info.wasUpdate
  /\ HostedSlugs(hosted, last.target.article) = {"a", "b"}

(***************************************************************************)
(* Properties of the front matter (SpecFrontMatter)                        *)
(***************************************************************************)
\* a body the excerpt has nothing to remove from: no colon, no line break,
\* no space at either end and no two spaces in a row
IsPlain(text) ==
  /\ \A i \in 1 .. Len(text) : text[i] \in {"y", " "}
  /\ text # <<>> => text[1] # " " /\ text[Len(text)] # " "
  /\ \A i \in 1 .. Len(text) - 1 : text[i] # " " \/ text[i + 1] # " "

EndsWithEllipsis(e) ==
  Len(e) >= 3 /\ SubSeq(e, Len(e) - 2, Len(e)) = <<".", ".", ".">>

\* C25: a body of exactly 150 plain characters is its own excerpt, with no
\* ellipsis; a body of 151 characters is truncated and its excerpt ends with
\* '...'; a body of 200 characters whose only space is at position 120 is
\* cut at that space and not at position 150.
C25_ExcerptBoundary ==
  LET body == last.target.text
      e == last.info.value
      spaces == {p \in 1 .. Len(body) : body[p] = " "}
  IN (last.op = "generateExcerpt" /\ IsPlain(body)) =>
       /\ Len(body) = 150 => e = body
       /\ Len(body) = 151 =>
            /\ EndsWithEllipsis(e)
            /\ Len(e) - 3 <= 150
            /\ SubSeq(e, 1, Len(e) - 3) = SubSeq(body, 1, Len(e) - 3)
       /\ (Len(body) = 200 /\ spaces \in {{120}, {121}}) =>
            \A p \in spaces : e = SubSeq(body, 1, p - 1) \o <<".", ".", ".">>

\* the body of 200 characters was cut at its space
C25_Witness ==
  /\ last.op = "generateExcerpt"
  /\ Len(last.target.text) = 200
  /\ last.target.text[120] = " "
  /\ Len(last.info.value) = 122

\* C26: for every article body, the excerpt written into the front matter
\* of the hosted file has at most 150 characters.
C26_ExcerptAtMost150 ==
  last.op = "generateExcerpt" => Len(last.info.value) <= 150

\* C27: for every article, reading the published file with the reader of
\* the import gives back the content and the title of the article, bodies
\* with whitespace at either end included.
C27_RoundTrip ==
  last.op = "parseMarkdownContent" =>
    /\ last.info.value.content = last.target.text
    /\ last.info.value.title = last.target.title

(***************************************************************************)
(* Properties of the integration rows (SpecToken)                          *)
(***************************************************************************)
IntegrationsOf(rows, u) ==
  {g \in rows : g.userId = u /\ g.platform = "github"}

\* C28: after any sequence of logins and token invalidations every user has
\* at most one integration row per platform; a login of a user who has a row
\* changes the token of that row and adds none; an invalidation empties the
\* token and keeps the row.
C28_OneIntegrationPerUser ==
  /\ [](\A u \in Users : Cardinality(IntegrationsOf(gitIntegrations, u)) <= 1)
  /\ [][last'.op = "upsertGitIntegration" =>
          LET u == last'.userId
          IN /\ Cardinality(IntegrationsOf(gitIntegrations', u)) = 1
             /\ \A g \in IntegrationsOf(gitIntegrations', u) : g.accessToken \in Tokens
             /\ gitIntegrations' \ IntegrationsOf(gitIntegrations', u)
                  = gitIntegrations \ IntegrationsOf(gitIntegrations, u)]_vars
  /\ [][last'.resolution = "invalid" =>
          LET u == last'.userId
          IN /\ IntegrationsOf(gitIntegrations, u) # {}
             /\ \A g \in IntegrationsOf(gitIntegrations, u) :
                  IntegrationsOf(gitIntegrations', u) = {[g EXCEPT !.accessToken = ""]}
             /\ gitIntegrations' \ IntegrationsOf(gitIntegrations', u)
                  = gitIntegrations \ IntegrationsOf(gitIntegrations, u)]_vars

\* a user logs in again after the stored token was invalidated: the emptied
\* row holds the new token and is still the only row of the user
C28_Witness ==
  /\ last.op = "upsertGitIntegration"
  /\ Cardinality(gitIntegrations) = 2
  /\ \E g \in gitIntegrations : g.userId # last.userId /\ g.accessToken = ""
  /\ \E g \in gitIntegrations : g.userId = last.userId /\ g.accessToken = "t2"

(***************************************************************************)
(* Properties of the repository link of a site (SpecRelink)                *)
(***************************************************************************)
SyncWorkflows ==
  {"createArticle", "updateArticle", "deleteArticle", "publishArticleToGitHub",
   "importArticlesFromGitHub", "deleteArticleFromGitHub"}

\* C29: createSite writes the gitRepo of the row it creates and of no other
\* row; createArticle, updateArticle, deleteArticle, publish, import and
\* delete-from-repo leave every Site row as it was; the gitRepo of a row
\* changes only in an updateSite.
C29_GitRepoWrittenOnce ==
  /\ [][last'.op \in SyncWorkflows => sites' = sites]_vars
  /\ [][(last'.op = "createSite" /\ last'.status = "ok") =>
          /\ last'.info.site \notin DOMAIN sites
          /\ DOMAIN sites' = DOMAIN sites \cup {last'.info.site}
          /\ sites'[last'.info.site].gitRepo = last'.info.gitRepo
          /\ last'.info.gitRepo
               = FullName(last'.userId, sites'[last'.info.site].name)
          /\ \A s \in DOMAIN sites : sites'[s] = sites[s]]_vars
  /\ [][\A s \in DOMAIN sites \cap DOMAIN sites' :
          sites'[s].gitRepo # sites[s].gitRepo => last'.op = "updateSite"]_vars

\* the link of the site was changed by updateSite, and an import on the
\* relinked site then left the row alone
C29_Witness ==
  /\ last.op = "importArticlesFromGitHub"
  /\ last.target.site \in DOMAIN sites
  /\ sites[last.target.site].gitRepo = OtherRepo

(***************************************************************************)
(* Properties of the probe of publish (SpecProvision)                      *)
(***************************************************************************)
IssuedPut(trace) == \E k \in 1 .. Len(trace) : trace[k].kind = "putFile"

\* C30: in publish the answer of the probe decides the write.  On a 404 a
\* PUT without sha is issued, with the message 'Add article: {slug}', and a
\* success reports wasUpdate = false; on a file that is there a PUT with the
\* sha the probe returned is issued, with the message 'Update article:
\* {slug}', and a success reports wasUpdate = true; on any other answer the
\* publish fails with that answer and no PUT is issued.
C30_ProbeDecidesWrite ==
  \A slug \in Slugs, rGet \in ProbeResponses, rPut \in ProbeResponses :
    LET probe == ServeGet(hosted, ProbeRepo, slug, rGet)
        p == publishArticleToRepo(hosted, ProbeRepo, slug, ProbeContent, rGet,
                                  rPut)
    IN /\ probe.resp.status = 404 =>
            /\ IssuedPut(p.trace)
            /\ p.sha = NoSha
            /\ p.message = <<"Add", slug>>
            /\ p.status = "ok" => ~p.wasUpdate
       /\ IsOk(probe.resp) =>
            /\ IssuedPut(p.trace)
            /\ p.sha = probe.sha /\ p.sha # NoSha
            /\ p.message = <<"Update", slug>>
            /\ p.status = "ok" => p.wasUpdate
       /\ (~IsOk(probe.resp) /\ probe.resp.status # 404) =>
            /\ p.status = "failed"
            /\ p.error = probe.resp
            /\ ~IssuedPut(p.trace)
            /\ p.hosted = hosted

\* a publish found the file, wrote it with the sha of the probe and succeeded
C30_Witness ==
  /\ req.op = "publishArticleToRepo"
  /\ outcome.status = "ok"
  /\ outcome.trace = <<[kind |-> "getFile", status |-> 200],
                       [kind |-> "putFile", status |-> 200]>>

(***************************************************************************)
(* Properties of the probe of delete-from-repo (SpecProvision)             *)
(***************************************************************************)
DeleteCalls(trace) == {k \in 1 .. Len(trace) : trace[k].kind = "deleteFile"}

\* C31: in delete-from-repo a 404 on the probe gives {deleted: false,
\* reason: 'File not found'} and no DELETE; any other failure of the probe
\* is the error of the deletion; otherwise exactly one DELETE is issued,
\* with the sha the probe returned, and a failure of that DELETE is the
\* error of the deletion.
C31_ProbeDecidesDelete ==
  \A slug \in Slugs, rGet \in ProbeResponses, rDel \in ProbeResponses :
    LET probe == ServeGet(hosted, ProbeRepo, slug, rGet)
        answer == ServeWrite(hosted, ProbeRepo, slug, probe.sha, rDel)
        d == deleteArticleFromRepo(hosted, ProbeRepo, slug, rGet, rDel)
    IN /\ probe.resp.status = 404 =>
            /\ d.status = "ok"
            /\ ~d.deleted
            /\ d.reason = "File not found"
            /\ DeleteCalls(d.trace) = {}
            /\ d.hosted = hosted
       /\ (~IsOk(probe.resp) /\ probe.resp.status # 404) =>
            /\ d.status = "failed"
            /\ d.error = probe.resp
            /\ DeleteCalls(d.trace) = {}
            /\ d.hosted = hosted
       /\ IsOk(probe.resp) =>
            /\ Cardinality(DeleteCalls(d.trace)) = 1
            /\ d.sha = probe.sha /\ d.sha # NoSha
            /\ IF IsOk(answer)
                 THEN /\ d.status = "ok"
                      /\ d.deleted
                      /\ d.filePath = FilePath(slug)
                      /\ ~HasFile(d.hosted, ProbeRepo, slug)
               ELSE /\ d.status = "failed"
                    /\ d.error = answer
                    /\ d.hosted = hosted

\* the probe found the file and the DELETE was refused: the deletion failed
C31_Witness ==
  /\ req.op = "deleteArticleFromRepo"
  /\ outcome.status = "failed"
  /\ outcome.trace = <<[kind |-> "getFile", status |-> 200],
                       [kind |-> "deleteFile", status |-> 500]>>

(***************************************************************************)
(* Properties of the files of the placeholder loop (SpecSubstitute)        *)
(***************************************************************************)
\* the loop has gone past file k of the listing
Passed(k) == pc \in {"file", "put", "pages"} /\ k < fileIdx

\* C32: in placeholder substitution a file is fetched only if it is a blob
\* whose path ends in .html, .css, .js, .json, .md, .yml, .yaml or .txt; it
\* is written back exactly if a placeholder of the mapping occurs in it; the
\* write carries the sha its own fetch returned; a file without a
\* placeholder is never written.
C32_WriteBackOnlyChangedFiles ==
  /\ [](IsChain =>
          \A k \in 1 .. Len(files) :
            /\ files[k].fetched # <<>> =>
                 /\ files[k].type = "blob"
                 /\ files[k].ext \in {"html", "css", "js", "json", "md", "yml",
                                      "yaml", "txt"}
            /\ files[k].written # <<>> =>
                 /\ files[k].tokens \cap PlaceholderKeys # {}
                 /\ files[k].written = files[k].fetched
            /\ (Passed(k) /\ files[k].fetched # <<>>) =>
                 (files[k].written # <<>>
                    <=> files[k].tokens \cap PlaceholderKeys # {}))
  /\ [][(InChain /\ calls'.putFile = calls.putFile + 1) =>
          /\ files[fileIdx].fetched # <<>>
          /\ files'[fileIdx].written = files[fileIdx].fetched
          /\ \A k \in 1 .. Len(files) :
               k # fileIdx => files'[k] = files[k]]_vars

\* a file that changed after the listing was written back with the sha of
\* its fetch
C32_Witness ==
  /\ IsChain
  /\ \E k \in 1 .. Len(files) :
       /\ files[k].written = ChangedSha
       /\ files[k].sha = ListedSha

(***************************************************************************)
(* Properties of requests in flight (SpecRace)                             *)
(***************************************************************************)
\* C33: whatever the interleaving of createArticle, updateArticle and the
\* steps of imports, two imports of one site between their slug check and
\* their insert included, no two Article rows share (siteId, slug).
C33_SlugUniquePerSite ==
  \A i \in DOMAIN articles, j \in DOMAIN articles :
    (articles[i].siteId = articles[j].siteId
       /\ articles[i].slug = articles[j].slug) => i = j

\* an import was refused its insert by a row that another request wrote
\* between its check and its insert
C33_Witness ==
  /\ last.op = "importArticlesFromGitHub"
  /\ last.status = "failed"
  /\ last.error = Defect("Unique constraint")
  /\ \E i \in DOMAIN articles : articles[i].siteId = last.target.site

\* the resolutions of user u that take their clearing step
Clearing(u) ==
  {p \in DOMAIN running \ DOMAIN running' :
     /\ running[p].op = "getUserGitHubToken"
     /\ running[p].pc = "clear"
     /\ running[p].userId = u}

\* C34: the stored token of a user is cleared only when it is the token
\* that failed validation: a token that a re-authentication stored after
\* the resolution read the old one is never cleared by that resolution.
C34_ClearsOnlyFailedToken ==
  [][\A u \in Users :
       (HasStoredToken(gitIntegrations, u)
          /\ ~HasStoredToken(gitIntegrations', u))
         => \E p \in Clearing(u) :
              StoredTokens(gitIntegrations, u) = {running[p].token}]_vars

\* C35: the stored token is cleared only when the provider rejected it as
\* unauthorized (401): a validation that fails otherwise (5xx, rate limit,
\* network) fails the request and leaves the stored token in place.
C35_ClearedOnlyOnUnauthorized ==
  [][\A u \in Users :
       (HasStoredToken(gitIntegrations, u)
          /\ ~HasStoredToken(gitIntegrations', u))
         => /\ last'.op = "getUserGitHubToken"
            /\ last'.status = "failed"
            /\ last'.trace = <<Call("user", Unauthorized)>>]_vars

(***************************************************************************)
(* Properties of the order of checks and token resolution (SpecGate)       *)
(***************************************************************************)
\* the request answered in this step is on an article or a site that is
\* absent, or that belongs to another user than the one asking
OnAbsentOrForeign(rq) ==
  \/ /\ rq.op = "importArticlesFromGitHub"
     /\ \/ rq.target.site \notin DOMAIN sites
        \/ sites[rq.target.site].userId # rq.userId
  \/ /\ rq.op \in {"publishArticleToGitHub", "deleteArticleFromGitHub"}
     /\ \/ rq.target.article \notin DOMAIN articles
        \/ sites[articles[rq.target.article].siteId].userId # rq.userId

\* C36: in publish, import and delete-from-repo the existence and ownership
\* checks come before token resolution: on an absent or foreign article or
\* site no validation call is made and no stored token changes.
C36_ChecksBeforeTokenResolution ==
  [][OnAbsentOrForeign(last') =>
       /\ last'.status = "failed"
       /\ last'.resolution = None
       /\ \A k \in 1 .. Len(last'.trace) : last'.trace[k].kind # "user"
       /\ gitIntegrations' = gitIntegrations]_vars

\* a user holding a token asked to import the site of another user, and
\* still holds the token
C36_Witness ==
  /\ last.op = "importArticlesFromGitHub"
  /\ last.status = "failed"
  /\ last.target.site \in DOMAIN sites
  /\ sites[last.target.site].userId # last.userId
  /\ sites[last.target.site].gitRepo \in DOMAIN hosted
  /\ HasStoredToken(gitIntegrations, last.userId)

\* a user holding a token asked to publish an article that does not exist
C36_WitnessAbsent ==
  /\ last.op = "publishArticleToGitHub"
  /\ last.status = "failed"
  /\ last.error = ArticleNotFoundError
  /\ HasStoredToken(gitIntegrations, last.userId)

(***************************************************************************)
(* Properties of the rows a publication leaves alone (SpecPublish)         *)
(***************************************************************************)
\* C37: a successful publish changes only the status of its article, to
\* 'published' whatever it was: title, slug, content and siteId stay, no
\* Article row is created or deleted, no other row changes; delete-from-repo
\* changes no row, so the status stays 'published' once the file is removed.
C37_PublishChangesOnlyStatus ==
  [][/\ (last'.op = "publishArticleToGitHub" /\ last'.status = "ok") =>
          /\ DOMAIN articles' = DOMAIN articles
          /\ \A i \in DOMAIN articles :
               articles'[i] =
                 IF i = last'.target.article
                   THEN [articles[i] EXCEPT !.status = "published"]
                 ELSE articles[i]
          /\ UNCHANGED <<sites, gitIntegrations>>
     /\ last'.op = "deleteArticleFromGitHub" =>
          /\ UNCHANGED <<articles, sites>>
          /\ last'.status = "ok" => UNCHANGED gitIntegrations]_vars

\* an article that was published already has been published again
C37_Witness ==
  /\ last.op = "publishArticleToGitHub"
  /\ last.status = "ok"
  /\ last.info.wasUpdate
  /\ articles[last.target.article].status = "published"
  /\ articles[last.target.article].title = "T"

\* the file of a published article has been removed and the row still says
\* 'published'
C37_WitnessRemoved ==
  /\ last.op = "deleteArticleFromGitHub"
  /\ last.status = "ok"
  /\ last.info.deleted
  /\ articles[last.target.article].status = "published"
  /\ ~HasFile(hosted, sites[articles[last.target.article].siteId].gitRepo,
              articles[last.target.article].slug)

\* the publications that take their PUT step
Putting ==
  {p \in DOMAIN running \ DOMAIN running' :
     running[p].op = "publishArticleToGitHub" /\ running[p].pc = "put"}

\* C38: a publish that returns wasUpdate = false created the hosted file: no
\* file was at content/{slug}.md when its PUT was applied, even when another
\* publish or delete-from-repo of the article ran between probe and PUT.
C38_NewMeansCreated ==
  [][\A p \in Putting :
       (last'.status = "ok" /\ ~last'.info.wasUpdate)
         => /\ ~HasFile(hosted, running[p].repo, running[p].slug)
            /\ HasFile(hosted', running[p].repo, running[p].slug)]_vars

\* two publications probed the path while it was empty; the PUT of one has
\* created the file and the other has its PUT still to send
C38_Witness ==
  /\ last.op = "publishArticleToGitHub"
  /\ last.status = "ok"
  /\ ~last.info.wasUpdate
  /\ \E q \in DOMAIN running :
       /\ running[q].op = "publishArticleToGitHub"
       /\ running[q].pc = "put"
       /\ running[q].sha = NoSha
       /\ HasFile(hosted, running[q].repo, running[q].slug)

\* the path changed between the probe and the PUT of a publication, and
\* the provider refused the PUT
C38_WitnessRefused ==
  /\ last.op = "publishArticleToGitHub"
  /\ last.status = "failed"
  /\ Len(last.trace) = 3
  /\ last.trace[3] = Call("putFile", Conflict)

(***************************************************************************)
(* Properties of the slugs of Article rows (SpecSlug)                      *)
(***************************************************************************)
\* C39: after any sequence of creations and updates through the routes and
\* of imports, the slug of every Article row is non-empty, at most 100
\* characters long and made of lowercase letters, digits and hyphens only,
\* slugs taken by the import from file paths or front matter included.
C39_SlugsWellFormed ==
  \A i \in DOMAIN articles :
    /\ Len(articles[i].slug) \in 1 .. MaxSlugLength
    /\ \A k \in 1 .. Len(articles[i].slug) : articles[i].slug[k] \in SlugChars

(***************************************************************************)
(* Properties of the rows of a deleted site (Spec)                         *)
(***************************************************************************)
\* C40: in every reachable state the siteId of each Article is the id of a
\* Site row; deleteSite by the owner removes the Site row and all of its
\* Article rows, keeps every other row, and leaves the hosted files of the
\* removed articles in place.
C40_ArticlesReferToSites ==
  /\ [](\A i \in DOMAIN articles : articles[i].siteId \in DOMAIN sites)
  /\ [][(last'.op = "deleteSite" /\ last'.status = "ok") =>
          LET s == last'.target.site
          IN /\ sites[s].userId = last'.userId
             /\ DOMAIN sites' = DOMAIN sites \ {s}
             /\ DOMAIN articles' =
                  {i \in DOMAIN articles : articles[i].siteId # s}
             /\ \A i \in DOMAIN articles' : articles'[i] = articles[i]
             /\ hosted' = hosted]_vars

\* a site was deleted with its published article, whose file is still hosted
C40_Witness ==
  /\ last.op = "deleteSite"
  /\ last.status = "ok"
  /\ last.target.site \notin DOMAIN sites
  /\ last.info.site.gitRepo \in DOMAIN hosted
  /\ DOMAIN hosted[last.info.site.gitRepo] # {}
  /\ DOMAIN articles = {}

====
